---- MODULE Spec2Model ----
(***************************************************************************)
(* Model of the retrieval-augmented generation core of the university      *)
(* assistant: the LLM API manager (src/llm/api_manager.py), the vector     *)
(* store (src/rag/vector_store.py), the document retriever                 *)
(* (src/rag/retriever.py), the response generator                          *)
(* (src/rag/generator.py), and the knowledge base builder                  *)
(* (scripts/04_build_knowledge_base.py).                                   *)
(*                                                                         *)
(* An optional string argument that is None is the string "None"; an       *)
(* optional top_k that is None is 0 (both are falsy in `top_k or ...`).    *)
(* A raised exception is a record [kind |-> "error", ...]; a returned      *)
(* value is a record [kind |-> "ok", ...].                                 *)
(***************************************************************************)
EXTENDS Integers, Sequences, FiniteSets, TLC

VARIABLES
    env,          \* Config.GROQ_API_KEY / Config.OPENAI_API_KEY are set
    api_manager,  \* module global _api_manager: whether it is set, and its clients
    stats,        \* LLMAPIManager.stats
    collection,   \* items stored in the ChromaDB collection, in insertion order
    next_uuid,    \* number of uuid4() ids given to stored items so far
    pc,           \* position of the running ResponseGenerator.generate call
    frame,        \* locals of the running ResponseGenerator.generate call
    stages,       \* stages the current / last generate call has run, in order
    last,         \* the last completed top-level call: arguments, outcome, trace
    chunker,      \* locals of the running / last chunk_document call
    vs,           \* VectorStore instances: the global _vector_store and its holders
    disk,         \* the raw documents the builder's load_* methods read from the data files
    adder         \* the add_documents call in progress: its arguments and position

vars == <<env, api_manager, stats, collection, next_uuid, pc, frame, stages, last,
          chunker, vs, disk, adder>>

None == "None"

(***************************************************************************)
(* Bounds                                                                  *)
(***************************************************************************)
MaxAttempts == 2     \* generate_response is called while fewer attempts were made
MaxGenAttempts == 1  \* generate is called while fewer attempts were made
MaxIndex == 3        \* items held by the collection
MaxDocs == 2         \* documents passed to one add_documents call
MaxIters == 5        \* iterations of chunk_document's loop that are followed
MaxDistance == 20020 \* largest distance of a search result, in units of 1/10000
MaxRaw == 2          \* raw documents in the data files
MaxBuilt == 5        \* items held by the collection the builder fills
MaxInstances == 2    \* VectorStore instances constructed over a behaviour

(***************************************************************************)
(* Config (src/config.py)                                                  *)
(***************************************************************************)
TOP_K_RESULTS == 5
CHUNK_SIZE == 800
CHUNK_OVERLAP == 100
GROQ_MODEL == "llama-3.1-70b-versatile"
OPENAI_MODEL == "gpt-4o-mini"

(***************************************************************************)
(* LLM API manager                                                         *)
(***************************************************************************)

\* What a provider's chat.completions.create does on one call: it raises, or
\* it answers with a content and the usage it reports.
ProviderReplies ==
    { [ok |-> FALSE, content |-> "", usage |-> [prompt_tokens |-> 0, completion_tokens |-> 0, total_tokens |-> 0]],
      [ok |-> TRUE, content |-> "answer",
       usage |-> [prompt_tokens |-> 7, completion_tokens |-> 2, total_tokens |-> 9]] }

\* What the fallback provider's chat.completions.create does on one call; the
\* usage it reports differs from the primary's and its total is not the sum
\* of the two other counts.
OpenaiReplies ==
    { [ok |-> FALSE, content |-> "", usage |-> [prompt_tokens |-> 0, completion_tokens |-> 0, total_tokens |-> 0]],
      [ok |-> TRUE, content |-> "answer",
       usage |-> [prompt_tokens |-> 5, completion_tokens |-> 3, total_tokens |-> 11]] }

ZeroStats == [groq_calls |-> 0, openai_calls |-> 0, groq_errors |-> 0, openai_errors |-> 0]

Attempts(s) == s.groq_calls + s.openai_calls + s.groq_errors + s.openai_errors

\* Mutant: the missing-client check is left to the first call.
ManagerInit_Lazy(groq_key, groq_init_ok, openai_key, openai_init_ok) ==
    [kind |-> "ok", groq_client |-> groq_key /\ groq_init_ok,
     openai_client |-> openai_key /\ openai_init_ok]

\* LLMAPIManager.__init__: a client exists when its key is set and its
\* constructor did not raise; with no client at all the constructor raises.
ManagerInit(groq_key, groq_init_ok, openai_key, openai_init_ok) ==
    LET groq_client   == groq_key /\ groq_init_ok
        openai_client == openai_key /\ openai_init_ok
    IN  IF ~groq_client /\ ~openai_client
        THEN [kind |-> "error", type |-> "ValueError", origin |-> "manager"]
        ELSE [kind |-> "ok", groq_client |-> groq_client, openai_client |-> openai_client]

\* LLMAPIManager._call_groq
CallGroq(reply) ==
    IF reply.ok
    THEN [kind |-> "ok", content |-> reply.content, model |-> GROQ_MODEL,
          provider |-> "groq", usage |-> reply.usage]
    ELSE [kind |-> "error", type |-> "APIError", origin |-> "groq"]

\* LLMAPIManager._call_openai
CallOpenai(reply) ==
    IF reply.ok
    THEN [kind |-> "ok", content |-> reply.content, model |-> OPENAI_MODEL,
          provider |-> "openai", usage |-> reply.usage]
    ELSE [kind |-> "error", type |-> "APIError", origin |-> "openai"]

\* Mutant: a successful fallback call is not counted.
FallbackPart_Uncounted(m, s, tried, openai_reply) ==
    IF m.openai_client
    THEN LET r == CallOpenai(openai_reply)
         IN  IF r.kind = "ok"
             THEN [result |-> r, tried |-> Append(tried, "openai"), stats |-> s]
             ELSE [result |-> r, tried |-> Append(tried, "openai"),
                   stats |-> [s EXCEPT !.openai_errors = @ + 1]]
    ELSE [result |-> [kind |-> "error", type |-> "RuntimeError", origin |-> "manager"],
          tried |-> tried, stats |-> s]

\* Mutant: a failed fallback call is swallowed and the generic error of the
\* last line is raised instead.
FallbackPart_Swallow(m, s, tried, openai_reply) ==
    IF m.openai_client /\ CallOpenai(openai_reply).kind = "ok"
    THEN [result |-> CallOpenai(openai_reply), tried |-> Append(tried, "openai"),
          stats |-> [s EXCEPT !.openai_calls = @ + 1]]
    ELSE [result |-> [kind |-> "error", type |-> "RuntimeError", origin |-> "manager"],
          tried |-> IF m.openai_client THEN Append(tried, "openai") ELSE tried,
          stats |-> IF m.openai_client THEN [s EXCEPT !.openai_errors = @ + 1] ELSE s]

\* The fallback half of generate_response (lines 83-95), entered with the
\* attempts made and the counters as the primary half left them.
FallbackPart(m, s, tried, openai_reply) ==
    IF m.openai_client
    THEN LET r == CallOpenai(openai_reply)
         IN  IF r.kind = "ok"
             THEN [result |-> r, tried |-> Append(tried, "openai"),
                   stats |-> [s EXCEPT !.openai_calls = @ + 1]]
             ELSE [result |-> r, tried |-> Append(tried, "openai"),
                   stats |-> [s EXCEPT !.openai_errors = @ + 1]]
    ELSE [result |-> [kind |-> "error", type |-> "RuntimeError", origin |-> "manager"],
          tried |-> tried, stats |-> s]

\* Mutant: a successful primary call does not return; the fallback runs too.
GenerateResponse_NoReturn(m, s, use_fallback, groq_reply, openai_reply) ==
    IF m.groq_client
    THEN LET r == CallGroq(groq_reply)
         IN  IF r.kind = "ok"
             THEN FallbackPart(m, [s EXCEPT !.groq_calls = @ + 1], <<"groq">>, openai_reply)
             ELSE LET s1 == [s EXCEPT !.groq_errors = @ + 1]
                  IN  IF ~use_fallback
                      THEN [result |-> r, tried |-> <<"groq">>, stats |-> s1]
                      ELSE FallbackPart(m, s1, <<"groq">>, openai_reply)
    ELSE FallbackPart(m, s, <<>>, openai_reply)

\* Mutant: use_fallback is ignored; a failed primary always falls through.
GenerateResponse_IgnoreFlag(m, s, use_fallback, groq_reply, openai_reply) ==
    IF m.groq_client
    THEN LET r == CallGroq(groq_reply)
         IN  IF r.kind = "ok"
             THEN [result |-> r, tried |-> <<"groq">>,
                   stats |-> [s EXCEPT !.groq_calls = @ + 1]]
             ELSE FallbackPart(m, [s EXCEPT !.groq_errors = @ + 1], <<"groq">>, openai_reply)
    ELSE FallbackPart(m, s, <<>>, openai_reply)

\* Mutant: a failed primary is re-raised at once, whatever use_fallback says.
GenerateResponse_SkipFallback(m, s, use_fallback, groq_reply, openai_reply) ==
    IF m.groq_client
    THEN LET r == CallGroq(groq_reply)
         IN  IF r.kind = "ok"
             THEN [result |-> r, tried |-> <<"groq">>,
                   stats |-> [s EXCEPT !.groq_calls = @ + 1]]
             ELSE [result |-> r, tried |-> <<"groq">>,
                   stats |-> [s EXCEPT !.groq_errors = @ + 1]]
    ELSE FallbackPart(m, s, <<>>, openai_reply)

\* Mutant: a failed primary attempt is counted as an error and as a call.
GenerateResponse_ErrorAlsoCall(m, s, use_fallback, groq_reply, openai_reply) ==
    IF m.groq_client
    THEN LET r == CallGroq(groq_reply)
         IN  IF r.kind = "ok"
             THEN [result |-> r, tried |-> <<"groq">>,
                   stats |-> [s EXCEPT !.groq_calls = @ + 1]]
             ELSE LET s1 == [s EXCEPT !.groq_errors = @ + 1, !.groq_calls = @ + 1]
                  IN  IF ~use_fallback
                      THEN [result |-> r, tried |-> <<"groq">>, stats |-> s1]
                      ELSE FallbackPart(m, s1, <<"groq">>, openai_reply)
    ELSE FallbackPart(m, s, <<>>, openai_reply)

\* LLMAPIManager.generate_response: the result (response or raised error),
\* the providers attempted in order, and the counters afterwards.
GenerateResponse(m, s, use_fallback, groq_reply, openai_reply) ==
    IF m.groq_client
    THEN LET r == CallGroq(groq_reply)
         IN  IF r.kind = "ok"
             THEN [result |-> r, tried |-> <<"groq">>,
                   stats |-> [s EXCEPT !.groq_calls = @ + 1]]
             ELSE LET s1 == [s EXCEPT !.groq_errors = @ + 1]
                  IN  IF ~use_fallback
                      THEN [result |-> r, tried |-> <<"groq">>, stats |-> s1]
                      ELSE FallbackPart(m, s1, <<"groq">>, openai_reply)
    ELSE FallbackPart(m, s, <<>>, openai_reply)

(***************************************************************************)
(* Embedder and vector store                                               *)
(***************************************************************************)

\* Python dict.get(key, default) on a mapping modelled as a function.
Get(md, k, default) == IF k \in DOMAIN md THEN md[k] ELSE default

EmptyMap == [k \in {} |-> ""]

\* str(v) of a metadata value: a Python str is itself, an int is printed.
Str(v) == IF v.py = "int" THEN ToString(v.n) ELSE v.s

PyStr(x) == [py |-> "str", s |-> x]
PyInt(x) == [py |-> "int", n |-> x]

\* Documents a caller hands to add_documents.
DocPool ==
    { [content |-> "admission",
       metadata |-> [faculty |-> PyStr("FTS"), source_type |-> PyStr("faculty_web"),
                     title |-> PyStr("Admission"), url |-> PyStr("https://fts.vau.ac.lk/")]],
      [content |-> "courses",
       metadata |-> [faculty |-> PyStr("FTS"), source_type |-> PyStr("handbook_pdf"),
                     page_number |-> PyInt(3)]],
      [content |-> "exams",
       metadata |-> [faculty |-> PyStr("FAS"), source_type |-> PyStr("web"),
                     title |-> PyStr("Exams")]] }

\* Queries a caller passes: a real one, the empty one and a blank one.
Queries == {"admission requirements", "", "  "}

\* text.strip() is empty
IsBlank(text) == text \in {"", "  "}

\* The sentence-embedding model, as a point on a line (hundredths).
Embed(text) ==
    CASE text = "admission requirements" -> 0
      [] text = "admission"              -> 30
      [] text = "courses"                -> 80
      [] text = "exams"                  -> 140
      [] OTHER                           -> 100

\* Mutant: only the empty string is rejected.
GenerateEmbedding_EmptyOnly(text) ==
    IF text = ""
    THEN [kind |-> "error", type |-> "ValueError", origin |-> "embedder"]
    ELSE [kind |-> "ok", embedding |-> Embed(text)]

\* EmbeddingGenerator.generate_embedding
GenerateEmbedding(text) ==
    IF text = "" \/ IsBlank(text)
    THEN [kind |-> "error", type |-> "ValueError", origin |-> "embedder"]
    ELSE [kind |-> "ok", embedding |-> Embed(text)]

\* EmbeddingGenerator.generate_embeddings
GenerateEmbeddings(texts) ==
    IF texts = <<>>
    THEN [kind |-> "error", type |-> "ValueError", origin |-> "embedder"]
    ELSE [kind |-> "ok", embeddings |-> [i \in 1..Len(texts) |-> Embed(texts[i])]]

\* The collection's distance between a query embedding and a stored text
\* (squared L2), in units of 1/10000.
Distance(qe, text) == (qe - Embed(text)) * (qe - Embed(text))

\* A stored item satisfies the where clause: every key of the clause is a
\* key of the item's metadata with an equal (string) value.
Matches(item, where) ==
    \A k \in DOMAIN where : k \in DOMAIN item.metadata /\ item.metadata[k] = where[k]

RECURSIVE SortByDistance(_, _)
\* The items of a sequence by ascending distance to qe, ties in stored order.
SortByDistance(items, qe) ==
    IF items = <<>> THEN <<>>
    ELSE LET best == CHOOSE i \in 1..Len(items) :
                        \A j \in 1..Len(items) :
                            \/ Distance(qe, items[i].document) < Distance(qe, items[j].document)
                            \/ /\ Distance(qe, items[i].document) = Distance(qe, items[j].document)
                               /\ i <= j
             rest == [j \in 1..(Len(items) - 1) |-> IF j < best THEN items[j] ELSE items[j + 1]]
         IN  <<items[best]>> \o SortByDistance(rest, qe)

Head_n(seq, n) == SubSeq(seq, 1, IF Len(seq) < n THEN Len(seq) ELSE n)

\* Mutant: the where clause is not applied.
CollectionQuery_Unfiltered(coll, qe, n_results, where) ==
    Head_n(SortByDistance(coll, qe), n_results)

\* collection.query(query_embeddings=[qe], n_results=n, where=where): the
\* n nearest of the items that satisfy where (all items when where is absent).
CollectionQuery(coll, qe, n_results, where) ==
    LET cand == SelectSeq(coll, LAMBDA it : ~where.present \/ Matches(it, where.map))
    IN  Head_n(SortByDistance(cand, qe), n_results)

\* Mutant: a query that finds nothing raises.
Search_RaiseOnEmpty(coll, query, top_k, filters) ==
    LET k == IF top_k = 0 THEN TOP_K_RESULTS ELSE top_k
        e == GenerateEmbedding(query)
    IN  IF e.kind = "error"
        THEN [kind |-> "error", type |-> e.type, origin |-> e.origin, queried |-> FALSE]
        ELSE LET res == CollectionQuery(coll, e.embedding, k, filters)
             IN  IF res = <<>>
                 THEN [kind |-> "error", type |-> "IndexError", origin |-> "vector_store",
                       queried |-> TRUE]
                 ELSE [kind |-> "ok", queried |-> TRUE,
                       results |-> [i \in 1..Len(res) |->
                                      [id |-> res[i].id, document |-> res[i].document,
                                       metadata |-> res[i].metadata,
                                       distance |-> Distance(e.embedding, res[i].document)]]]

\* VectorStore.search; queried tells whether collection.query was reached.
Search(coll, query, top_k, filters) ==
    LET k == IF top_k = 0 THEN TOP_K_RESULTS ELSE top_k
        e == GenerateEmbedding(query)
    IN  IF e.kind = "error"
        THEN [kind |-> "error", type |-> e.type, origin |-> e.origin, queried |-> FALSE]
        ELSE LET where == IF filters.present /\ DOMAIN filters.map # {}
                          THEN [present |-> TRUE, map |-> filters.map]
                          ELSE [present |-> FALSE, map |-> EmptyMap]
                 res == CollectionQuery(coll, e.embedding, k, where)
             IN  [kind |-> "ok", queried |-> TRUE,
                  results |-> [i \in 1..Len(res) |->
                                 [id |-> res[i].id, document |-> res[i].document,
                                  metadata |-> res[i].metadata,
                                  distance |-> Distance(e.embedding, res[i].document)]]]

\* Documents that come with an id of their own (one of them empty), as
\* chunks of a handbook page.
IdDocPool ==
    { [id |-> "doc-1", content |-> "timetable",
       metadata |-> [chunk_index |-> PyStr("0"), total_chunks |-> PyStr("2"),
                     page_number |-> PyInt(7)]],
      [id |-> "", content |-> "library",
       metadata |-> [chunk_index |-> PyInt(1), total_chunks |-> PyInt(2)]] }

\* Mutant: values that are not strings are left out of the metadata.
Item_StringsOnly(doc, uuid) ==
    [id |-> IF "id" \in DOMAIN doc /\ doc.id # "" THEN doc.id
            ELSE "uuid-" \o ToString(uuid),
     document |-> doc.content,
     metadata |-> [k \in {x \in DOMAIN doc.metadata : doc.metadata[x].py = "str"} |->
                      Str(doc.metadata[k])]]

\* The item collection.add stores for a document (lines 86-99), with the
\* uuid4 numbered uuid: `doc.get('id') or str(uuid.uuid4())`
Item(doc, uuid) ==
    [id |-> IF "id" \in DOMAIN doc /\ doc.id # "" THEN doc.id
            ELSE "uuid-" \o ToString(uuid),
     document |-> doc.content,
     metadata |-> [k \in DOMAIN doc.metadata |-> Str(doc.metadata[k])]]

\* add_documents is entered (lines 70-76): nothing to do for an empty list,
\* otherwise the loop starts at offset 0.
AddEnter(coll, documents, batch_size) ==
    [pc |-> IF documents = <<>> THEN "done" ELSE "loop",
     documents |-> documents, batch_size |-> batch_size, i |-> 0,
     attempted |-> 0, raised |-> FALSE, before |-> coll]

\* Mutant: a failed batch is logged and the loop goes on with the next one.
AddBatch_SkipFailed(a, coll, uuid0, ok) ==
    LET n     == Len(a.documents)
        stop  == IF a.i + a.batch_size > n THEN n ELSE a.i + a.batch_size
        batch == SubSeq(a.documents, a.i + 1, stop)
        items == [j \in 1..Len(batch) |-> Item(batch[j], uuid0 + j)]
        fresh == SelectSeq(items, LAMBDA it : \A c \in 1..Len(coll) : coll[c].id # it.id)
        good  == ok /\ \A j1, j2 \in 1..Len(batch) : items[j1].id = items[j2].id => j1 = j2
    IN  [adder |-> [a EXCEPT !.i = a.i + a.batch_size,
                             !.attempted = @ + 1,
                             !.raised = a.raised \/ ~good,
                             !.pc = IF a.i + a.batch_size < n THEN "loop" ELSE "done"],
         collection |-> IF good THEN coll \o fresh ELSE coll,
         next_uuid |-> IF good THEN uuid0 + Len(batch) ELSE uuid0]

\* One iteration of add_documents' loop (lines 78-115) at offset a.i: the
\* batch documents[i:i + batch_size] is embedded and added (ok), or the
\* embedder or collection.add raises and the except clause re-raises.
\* collection.add refuses a batch that holds an id twice; an id that is in
\* the collection already makes it raise (as ~ok) or leave that item out,
\* depending on the library version.
AddBatch(a, coll, uuid0, ok) ==
    LET n     == Len(a.documents)
        stop  == IF a.i + a.batch_size > n THEN n ELSE a.i + a.batch_size
        batch == SubSeq(a.documents, a.i + 1, stop)
        items == [j \in 1..Len(batch) |-> Item(batch[j], uuid0 + j)]
        fresh == SelectSeq(items, LAMBDA it : \A c \in 1..Len(coll) : coll[c].id # it.id)
        good  == ok /\ \A j1, j2 \in 1..Len(batch) : items[j1].id = items[j2].id => j1 = j2
    IN  IF good
        THEN [adder |-> [a EXCEPT !.i = a.i + a.batch_size,
                                  !.attempted = @ + 1,
                                  !.pc = IF a.i + a.batch_size < n THEN "loop" ELSE "done"],
              collection |-> coll \o fresh,
              next_uuid |-> uuid0 + Len(batch)]
        ELSE [adder |-> [a EXCEPT !.attempted = @ + 1, !.raised = TRUE, !.pc = "done"],
              collection |-> coll,
              next_uuid |-> uuid0]

\* VectorStore.add_documents as one call: the collection after it and
\* whether it raised.  Batch number fail_batch (0: none) fails in the embedder
\* or in collection.add; the batches before it are already in the collection.
AddDocuments(coll, uuid0, documents, batch_size, fail_batch) ==
    LET n        == Len(documents)
        nbatches == (n + batch_size - 1) \div batch_size
        failed   == fail_batch \in 1..nbatches
        written  == IF failed THEN (fail_batch - 1) * batch_size ELSE n
    IN  IF n = 0
        THEN [collection |-> coll, next_uuid |-> uuid0, raised |-> FALSE]
        ELSE [collection |-> coll \o [j \in 1..written |-> Item(documents[j], uuid0 + j)],
              next_uuid |-> uuid0 + written,
              raised |-> failed]

(***************************************************************************)
(* Document retriever                                                      *)
(***************************************************************************)

\* Python truthiness of an optional string argument
Truthy(x) == x # None /\ x # ""

\* The filters dict retrieve builds (lines 47-51)
BuildFilters(faculty, source_type) ==
    LET keys == (IF Truthy(faculty) THEN {"faculty"} ELSE {})
                \cup (IF Truthy(source_type) THEN {"source_type"} ELSE {})
    IN  [k \in keys |-> IF k = "faculty" THEN faculty ELSE source_type]

\* round(x, 3) for x = num / 20000, in thousandths (ties go to the even
\* thousandth)
Round3(num) ==
    LET q == num \div 20
        r == num % 20
    IN  IF r > 10 \/ (r = 10 /\ q % 2 = 1) THEN q + 1 ELSE q

\* Mutant: the score is not clamped at 0.
CalculateRelevanceScore_Unclamped(distance) ==
    Round3(20000 - distance)

\* Mutant: the distance is taken for a similarity.
CalculateRelevanceScore_Inverted(distance) ==
    Round3(IF distance > 20000 THEN 20000 ELSE distance)

\* DocumentRetriever._calculate_relevance_score, in thousandths, from a
\* distance in units of 1/10000: round(max(0, 1 - distance / 2), 3).
CalculateRelevanceScore(distance) ==
    Round3(IF 20000 - distance < 0 THEN 0 ELSE 20000 - distance)

\* The loop of retrieve over the search results (lines 61-70)
Enhance(results) ==
    [i \in 1..Len(results) |->
        [rank |-> i,
         content |-> results[i].document,
         metadata |-> results[i].metadata,
         distance |-> results[i].distance,
         relevance_score |-> CalculateRelevanceScore(results[i].distance)]]

\* Mutant: an empty dict is passed on as it is.
SearchFilters_EmptyDict(faculty, source_type) ==
    [present |-> TRUE, map |-> BuildFilters(faculty, source_type)]

\* The filters argument retrieve hands to search: `filters if filters else
\* None` (line 57)
SearchFilters(faculty, source_type) ==
    LET filters == BuildFilters(faculty, source_type)
    IN  IF DOMAIN filters # {}
        THEN [present |-> TRUE, map |-> filters]
        ELSE [present |-> FALSE, map |-> EmptyMap]

\* DocumentRetriever.retrieve
Retrieve(coll, query, top_k, faculty, source_type) ==
    LET k       == IF top_k = 0 THEN TOP_K_RESULTS ELSE top_k
        found   == Search(coll, query, k, SearchFilters(faculty, source_type))
    IN  IF found.kind = "error" THEN found
        ELSE [kind |-> "ok", results |-> Enhance(found.results)]

\* f"[Source {i}]"
SourceRef(i) == "[Source " \o ToString(i) \o "]"

\* Text is a sequence of tokens: a source reference, a newline, or a whole
\* document content.
NL == "\n"

\* f"{source_ref}\n{content}\n"
ContextEntry(i, content) == <<SourceRef(i), NL, content, NL>>

RECURSIVE Join(_, _)
\* sep.join(parts)
Join(sep, parts) ==
    IF parts = <<>> THEN <<>>
    ELSE IF Len(parts) = 1 THEN parts[1]
    ELSE parts[1] \o sep \o Join(sep, Tail(parts))

\* Mutant: source ids are numbered from 0.
SourceInfo_ZeroBased(i, result) ==
    [id |-> i - 1,
     title |-> Get(result.metadata, "title", "Untitled"),
     url |-> Get(result.metadata, "url", ""),
     faculty |-> Get(result.metadata, "faculty", ""),
     source_type |-> Get(result.metadata, "source_type", ""),
     relevance_score |-> result.relevance_score]

\* The source_info dict of the i-th result (lines 126-133)
SourceInfo(i, result) ==
    [id |-> i,
     title |-> Get(result.metadata, "title", "Untitled"),
     url |-> Get(result.metadata, "url", ""),
     faculty |-> Get(result.metadata, "faculty", ""),
     source_type |-> Get(result.metadata, "source_type", ""),
     relevance_score |-> result.relevance_score]

\* DocumentRetriever.retrieve_with_context
RetrieveWithContext(coll, query, top_k, faculty) ==
    LET got == Retrieve(coll, query, top_k, faculty, None)
    IN  IF got.kind = "error" THEN got
        ELSE LET results == got.results
                 context_parts == [i \in 1..Len(results) |-> ContextEntry(i, results[i].content)]
                 sources == [i \in 1..Len(results) |-> SourceInfo(i, results[i])]
             IN  [kind |-> "ok",
                  context |-> Join(<<NL, NL>>, context_parts),
                  sources |-> sources,
                  num_sources |-> Len(sources)]

(***************************************************************************)
(* Prompts and response generator                                          *)
(***************************************************************************)

\* format_query_prompt: QUERY_PROMPT_TEMPLATE with its two fields filled in
FormatQueryPrompt(query, context) ==
    <<"Based on the following context ... Context:", NL>> \o context
        \o <<NL, NL, "User Question: ", query, NL, NL, "FORMATTING INSTRUCTIONS: ... Answer:">>

\* The messages list generate builds (lines 65-68)
Messages(user_prompt) ==
    << [role |-> "system", content |-> <<"SYSTEM_PROMPT">>],
       [role |-> "user", content |-> user_prompt] >>

\* Mutant: total_tokens is recomputed from the two other counts.
FormatResponse_Recomputed(query, faculty, sources, llm_response) ==
    [kind |-> "ok",
     answer |-> llm_response.content,
     sources |-> sources,
     metadata |-> [query |-> query,
                   faculty_filter |-> faculty,
                   num_sources |-> Len(sources),
                   model |-> llm_response.model,
                   provider |-> llm_response.provider,
                   usage |-> [llm_response.usage EXCEPT
                                !.total_tokens = llm_response.usage.prompt_tokens
                                                    + llm_response.usage.completion_tokens]]]

\* The response dict generate returns (lines 77-88)
FormatResponse(query, faculty, sources, llm_response) ==
    [kind |-> "ok",
     answer |-> llm_response.content,
     sources |-> sources,
     metadata |-> [query |-> query,
                   faculty_filter |-> faculty,
                   num_sources |-> Len(sources),
                   model |-> llm_response.model,
                   provider |-> llm_response.provider,
                   usage |-> llm_response.usage]]

\* Mutant: the handler answers with an apology instead of re-raising.
Reraise_Degraded(e) ==
    [kind |-> "ok", answer |-> "Sorry, something went wrong.", sources |-> <<>>]

\* generate's handler `except Exception as e: ...; raise` (lines 94-96):
\* what the caller sees when a stage raised e.
Reraise(e) == e

(***************************************************************************)
(* Knowledge base builder: chunking                                        *)
(***************************************************************************)

\* A text to be chunked is a sequence of character codes.
Whitespace == {32, 10, 9}

IsInk(c) == c \notin Whitespace

\* str.strip(): the text without its leading and trailing whitespace
Strip(text) ==
    LET n == Len(text)
    IN  IF \A i \in 1..n : ~IsInk(text[i]) THEN <<>>
        ELSE LET lead  == CHOOSE k \in 0..(n - 1) :
                             IsInk(text[k + 1]) /\ \A j \in 1..k : ~IsInk(text[j])
                 trail == CHOOSE k \in 0..(n - 1) :
                             IsInk(text[n - k]) /\ \A j \in 0..(k - 1) : ~IsInk(text[n - j])
             IN  SubSeq(text, lead + 1, n - trail)

\* A slice bound as Python normalises it for a text of length n
SliceBound(x, n) ==
    IF x < 0 THEN (IF x + n < 0 THEN 0 ELSE x + n)
    ELSE (IF x > n THEN n ELSE x)

\* content[a:b], for 0-based a and b
PySlice(content, a, b) ==
    SubSeq(content, SliceBound(a, Len(content)) + 1, SliceBound(b, Len(content)))

\* The locals of chunk_document once its defaults are applied (lines 124-129);
\* an argument that is None or 0 is falsy and takes the configured value.
ChunkEnter(content, chunk_size, overlap) ==
    [pc |-> "loop", content |-> content,
     arg_chunk_size |-> chunk_size, arg_overlap |-> overlap,
     chunk_size |-> IF chunk_size = 0 THEN CHUNK_SIZE ELSE chunk_size,
     overlap |-> IF overlap = 0 THEN CHUNK_OVERLAP ELSE overlap,
     start |-> 0, chunks |-> <<>>, windows |-> <<>>]

\* Mutant: the next window starts where this one ended (the overlap is lost).
ChunkIterate_NoOverlap(c) ==
    LET end   == c.start + c.chunk_size
        chunk == PySlice(c.content, c.start, end)
    IN  [c EXCEPT !.chunks  = IF Strip(chunk) # <<>> THEN Append(@, Strip(chunk)) ELSE @,
                  !.windows = Append(@, <<c.start, end>>),
                  !.start   = end]

\* One iteration of the while loop (lines 132-138); windows records the
\* [start, end) bounds the iteration sliced.
ChunkIterate(c) ==
    LET end   == c.start + c.chunk_size
        chunk == PySlice(c.content, c.start, end)
    IN  [c EXCEPT !.chunks  = IF Strip(chunk) # <<>> THEN Append(@, Strip(chunk)) ELSE @,
                  !.windows = Append(@, <<c.start, end>>),
                  !.start   = end - c.overlap]

RECURSIVE ChunkLoop(_)
\* The while loop run to its end, for locals with which it ends
ChunkLoop(c) ==
    IF c.start < Len(c.content) THEN ChunkLoop(ChunkIterate(c)) ELSE [c EXCEPT !.pc = "done"]

\* chunk_document(content) as prepare_documents_for_vectorstore calls it
ChunkDocument(content) == ChunkLoop(ChunkEnter(content, 0, 0)).chunks

(***************************************************************************)
(* Knowledge base builder: preparing and building                          *)
(***************************************************************************)

\* Texts handed to chunk_document: length n, blank at the positions in
\* blanks, a letter that depends on the position elsewhere.
Text(n, blanks) == [i \in 1..n |-> IF i \in blanks THEN 32 ELSE 65 + (i % 26)]

\* Raw documents in the data files: two long ones (the second ends in a
\* blank window), one stored whole, and one that is mostly blank.
RawPool ==
    { [content |-> Text(1000, {}),
       metadata |-> [faculty |-> PyStr("FTS"), source_type |-> PyStr("faculty_web")],
       top |-> [title |-> PyStr("Admission"), faculty |-> PyStr("FAS")]],
      [content |-> Text(1500, 1401..1500),
       metadata |-> [source_type |-> PyStr("handbook_pdf"), page_number |-> PyStr("3")],
       top |-> EmptyMap],
      [content |-> Text(300, {}),
       metadata |-> [title |-> PyStr("Home")],
       top |-> [url |-> PyStr("https://vau.ac.lk/"), title |-> PyStr("Welcome"),
                scraped_at |-> PyStr("2024-01-01")]],
      [content |-> Text(150, 1..60), metadata |-> EmptyMap, top |-> EmptyMap] }

RawDocSeqs == UNION {[1..n -> RawPool] : n \in 0..MaxRaw}

\* Raw documents around the pre-filter: empty content, no content key, blank
\* content, and content whose trimmed length is 99 and 100.
EdgePool ==
    { [content |-> <<>>, metadata |-> [title |-> PyStr("Empty")], top |-> EmptyMap],
      [metadata |-> EmptyMap, top |-> [title |-> PyStr("Missing")]],
      [content |-> Text(120, 1..120), metadata |-> EmptyMap, top |-> EmptyMap],
      [content |-> Text(159, 1..60), metadata |-> EmptyMap,
       top |-> [faculty |-> PyStr("FAS")]],
      [content |-> Text(160, 1..60), metadata |-> [source_type |-> PyStr("web")],
       top |-> [faculty |-> PyStr("FTS"), source_type |-> PyStr("faculty_web")]] }

EdgeDocSeqs == UNION {[1..n -> RawPool \cup EdgePool] : n \in 0..MaxRaw}

\* doc.get('content', '') (line 157)
Content(doc) == IF "content" \in DOMAIN doc THEN doc.content ELSE <<>>

\* The top-level keys that are merged into the metadata (lines 170, 185)
MergedKeys == {"url", "title", "faculty", "source_type", "department"}

\* Mutant: a top-level key replaces the metadata key of the same name.
MergeTopLevel_Overwrite(metadata, doc) ==
    [k \in DOMAIN metadata \cup (DOMAIN doc.top \cap MergedKeys) |->
        IF k \in DOMAIN doc.top \cap MergedKeys THEN doc.top[k] ELSE metadata[k]]

\* metadata with the document's top-level keys added where it has no such key
MergeTopLevel(metadata, doc) ==
    [k \in DOMAIN metadata \cup (DOMAIN doc.top \cap MergedKeys) |->
        IF k \in DOMAIN metadata THEN metadata[k] ELSE doc.top[k]]

\* Mutant: chunk_index is numbered from 1.
ChunkMetadata_OneBased(doc, i, total) ==
    MergeTopLevel([k \in DOMAIN doc.metadata \cup {"chunk_index", "total_chunks"} |->
                     IF k = "chunk_index" THEN PyStr(ToString(i + 1))
                     ELSE IF k = "total_chunks" THEN PyStr(ToString(total))
                     ELSE doc.metadata[k]], doc)

\* The metadata of chunk i (from 0) of total (lines 181-187)
ChunkMetadata(doc, i, total) ==
    MergeTopLevel([k \in DOMAIN doc.metadata \cup {"chunk_index", "total_chunks"} |->
                     IF k = "chunk_index" THEN PyStr(ToString(i))
                     ELSE IF k = "total_chunks" THEN PyStr(ToString(total))
                     ELSE doc.metadata[k]], doc)

\* Mutant: only empty content is skipped.
PrepareOne_EmptyOnly(doc) ==
    LET content == Content(doc)
    IN  IF content = <<>> THEN <<>>
        ELSE IF Len(content) < CHUNK_SIZE
        THEN << [content |-> content, metadata |-> MergeTopLevel(doc.metadata, doc)] >>
        ELSE LET chunks == ChunkDocument(content)
             IN  [i \in 1..Len(chunks) |->
                    [content |-> chunks[i],
                     metadata |-> ChunkMetadata(doc, i - 1, Len(chunks))]]

\* The body of prepare_documents_for_vectorstore's loop for one document
\* (lines 156-195): the prepared documents it appends.
PrepareOne(doc) ==
    LET content == Content(doc)
    IN  IF content = <<>> \/ Len(Strip(content)) < 100 THEN <<>>
        ELSE IF Len(content) < CHUNK_SIZE
        THEN << [content |-> content, metadata |-> MergeTopLevel(doc.metadata, doc)] >>
        ELSE LET chunks == ChunkDocument(content)
             IN  [i \in 1..Len(chunks) |->
                    [content |-> chunks[i],
                     metadata |-> ChunkMetadata(doc, i - 1, Len(chunks))]]

\* The increments of self.stats['total_chunks'] in the loop body for one
\* document: none when it is skipped (line 161), one for a short document
\* (line 175), one per chunk for a long one (line 195).
CountOne(doc) ==
    LET content == Content(doc)
    IN  IF content = <<>> \/ Len(Strip(content)) < 100 THEN 0
        ELSE IF Len(content) < CHUNK_SIZE THEN 1
        ELSE Len(ChunkDocument(content))

\* PrepareOne of each raw document of the pools
Prepared == [doc \in RawPool \cup EdgePool |-> PrepareOne(doc)]

\* CountOne of each raw document of the pools
Counted == [doc \in RawPool \cup EdgePool |-> CountOne(doc)]

RECURSIVE TotalChunksAdded(_)
\* What prepare_documents_for_vectorstore adds to self.stats['total_chunks']
TotalChunksAdded(documents) ==
    IF documents = <<>> THEN 0
    ELSE Counted[Head(documents)] + TotalChunksAdded(Tail(documents))

RECURSIVE PrepareDocuments(_)
\* KnowledgeBaseBuilder.prepare_documents_for_vectorstore, on raw documents
\* of the pool
PrepareDocuments(documents) ==
    IF documents = <<>> THEN <<>>
    ELSE Prepared[Head(documents)] \o PrepareDocuments(Tail(documents))

(***************************************************************************)
(* State machine                                                           *)
(***************************************************************************)

TopKs == {0, 1, 2}
Faculties == {None, "", "FTS", "FAS"}
SourceTypes == {None, "web"}
BatchSizes == {1, 2}
\* The arguments the chat application passes to generate
AppFaculties == {None, "FTS"}
AppTopKs == {0, 1}

NoManager == [exists |-> FALSE, groq_client |-> FALSE, openai_client |-> FALSE]
NoChunker == [pc |-> "idle"]
NoAdder == [pc |-> "idle"]
NoFrame == [query |-> "", faculty |-> None, top_k |-> 0,
            context |-> <<>>, sources |-> <<>>, user_prompt |-> <<>>]

Init ==
    /\ env \in [GROQ_API_KEY : BOOLEAN, OPENAI_API_KEY : BOOLEAN]
    /\ api_manager = NoManager
    /\ stats = ZeroStats
    /\ collection = <<>>
    /\ next_uuid = 0
    /\ pc = "idle"
    /\ frame = NoFrame
    /\ stages = <<>>
    /\ last = [op |-> "none"]
    /\ chunker = NoChunker
    /\ vs = [global |-> 0, constructed |-> 0, retriever |-> 0, builder |-> 0]
    /\ disk = <<>>
    /\ adder = NoAdder

\* get_api_manager(): construct the manager on first use, return it afterwards.
GetApiManager ==
    /\ pc = "idle"
    /\ \E groq_init_ok \in BOOLEAN, openai_init_ok \in BOOLEAN :
         LET made == ManagerInit(env.GROQ_API_KEY, groq_init_ok,
                                 env.OPENAI_API_KEY, openai_init_ok)
         IN  IF api_manager.exists
             THEN /\ last' = [op |-> "get_api_manager", constructing |-> FALSE,
                              groq_usable |-> api_manager.groq_client,
                              openai_usable |-> api_manager.openai_client,
                              result |-> [kind |-> "ok"]]
                  /\ UNCHANGED <<api_manager, stats>>
             ELSE /\ last' = [op |-> "get_api_manager", constructing |-> TRUE,
                              groq_usable |-> env.GROQ_API_KEY /\ groq_init_ok,
                              openai_usable |-> env.OPENAI_API_KEY /\ openai_init_ok,
                              result |-> [kind |-> made.kind]]
                  /\ IF made.kind = "error"
                     THEN UNCHANGED <<api_manager, stats>>
                     ELSE /\ api_manager' = [exists |-> TRUE,
                                             groq_client |-> made.groq_client,
                                             openai_client |-> made.openai_client]
                          /\ stats' = ZeroStats
    /\ UNCHANGED <<env, collection, next_uuid, pc, frame, stages, chunker, vs, disk, adder>>

\* A caller invokes generate_response on the manager.
CallGenerateResponse ==
    /\ pc = "idle"
    /\ api_manager.exists
    /\ Attempts(stats) < MaxAttempts
    /\ \E use_fallback \in BOOLEAN, groq_reply \in ProviderReplies,
          openai_reply \in OpenaiReplies :
         LET g == GenerateResponse(api_manager, stats, use_fallback, groq_reply, openai_reply)
         IN  /\ stats' = g.stats
             /\ last' = [op |-> "generate_response", use_fallback |-> use_fallback,
                         groq_ok |-> groq_reply.ok, openai_ok |-> openai_reply.ok,
                         tried |-> g.tried, result |-> g.result, before |-> stats]
    /\ UNCHANGED <<env, api_manager, collection, next_uuid, pc, frame, stages, chunker, vs, disk, adder>>

\* A caller invokes add_documents on the vector store.
CallAddDocuments ==
    /\ pc = "idle"
    /\ \E n \in 0..MaxDocs, batch_size \in BatchSizes, fail_batch \in 0..MaxDocs :
         /\ Len(collection) + n <= MaxIndex
         /\ fail_batch * batch_size < n + batch_size
         /\ \E documents \in [1..n -> DocPool] :
              LET a == AddDocuments(collection, next_uuid, documents, batch_size, fail_batch)
              IN  /\ collection' = a.collection
                  /\ next_uuid' = a.next_uuid
                  /\ last' = [op |-> "add_documents", n |-> n, raised |-> a.raised]
    /\ UNCHANGED <<env, api_manager, stats, pc, frame, stages, chunker, vs, disk, adder>>

\* A caller invokes retrieve on the retriever.
CallRetrieve ==
    /\ pc = "idle"
    /\ \E query \in Queries, top_k \in TopKs, faculty \in Faculties,
          source_type \in SourceTypes :
         last' = [op |-> "retrieve", query |-> query, top_k |-> top_k,
                  faculty |-> faculty, source_type |-> source_type,
                  filters |-> SearchFilters(faculty, source_type),
                  result |-> Retrieve(collection, query, top_k, faculty, source_type)]
    /\ UNCHANGED <<env, api_manager, stats, collection, next_uuid, pc, frame, stages, chunker, vs, disk, adder>>

\* A caller invokes retrieve_with_context on the retriever.
CallRetrieveWithContext ==
    /\ pc = "idle"
    /\ \E query \in Queries, top_k \in TopKs, faculty \in Faculties :
         last' = [op |-> "retrieve_with_context", query |-> query, top_k |-> top_k,
                  faculty |-> faculty,
                  retrieved |-> Retrieve(collection, query, top_k, faculty, None),
                  result |-> RetrieveWithContext(collection, query, top_k, faculty)]
    /\ UNCHANGED <<env, api_manager, stats, collection, next_uuid, pc, frame, stages, chunker, vs, disk, adder>>

\* ResponseGenerator.generate is entered (the generator holds the manager
\* that get_api_manager returned to its constructor).
GenerateStart ==
    /\ pc = "idle"
    /\ api_manager.exists
    /\ Attempts(stats) < MaxGenAttempts
    /\ \E query \in Queries, faculty \in AppFaculties, top_k \in AppTopKs :
         frame' = [NoFrame EXCEPT !.query = query, !.faculty = faculty, !.top_k = top_k]
    /\ pc' = "retrieve"
    /\ stages' = <<>>
    /\ last' = [op |-> "generate", done |-> FALSE, before |-> stats]
    /\ UNCHANGED <<env, api_manager, stats, collection, next_uuid, chunker, vs, disk, adder>>

\* Mutant: the retrieval step stores the query in the index.
GenerateRetrieve_StoresQuery ==
    /\ pc = "retrieve"
    /\ LET r == RetrieveWithContext(collection, frame.query, frame.top_k, frame.faculty)
       IN  /\ stages' = Append(stages, "retrieve")
           /\ IF r.kind = "error"
              THEN /\ pc' = "idle"
                   /\ last' = [op |-> "generate", done |-> TRUE, before |-> last.before,
                               raised |-> r, tried |-> <<>>, result |-> Reraise(r)]
                   /\ UNCHANGED frame
              ELSE /\ pc' = "compose"
                   /\ frame' = [frame EXCEPT !.context = r.context, !.sources = r.sources]
                   /\ UNCHANGED last
    /\ collection' = Append(collection,
                            Item([content |-> frame.query, metadata |-> EmptyMap],
                                 next_uuid + 1))
    /\ next_uuid' = next_uuid + 1
    /\ UNCHANGED <<env, api_manager, stats, chunker, vs, disk, adder>>

\* Step 1 (lines 50-59): retrieve_with_context
GenerateRetrieve ==
    /\ pc = "retrieve"
    /\ LET r == RetrieveWithContext(collection, frame.query, frame.top_k, frame.faculty)
       IN  /\ stages' = Append(stages, "retrieve")
           /\ IF r.kind = "error"
              THEN /\ pc' = "idle"
                   /\ last' = [op |-> "generate", done |-> TRUE, before |-> last.before,
                               raised |-> r, tried |-> <<>>, result |-> Reraise(r)]
                   /\ UNCHANGED frame
              ELSE /\ pc' = "compose"
                   /\ frame' = [frame EXCEPT !.context = r.context, !.sources = r.sources]
                   /\ UNCHANGED last
    /\ UNCHANGED <<env, api_manager, stats, collection, next_uuid, chunker, vs, disk, adder>>

\* Step 2 (lines 61-68): format_query_prompt and the messages list
GenerateCompose ==
    /\ pc = "compose"
    /\ frame' = [frame EXCEPT !.user_prompt = FormatQueryPrompt(frame.query, frame.context)]
    /\ stages' = Append(stages, "compose")
    /\ pc' = "llm"
    /\ UNCHANGED <<env, api_manager, stats, collection, next_uuid, last, chunker, vs, disk, adder>>

\* Steps 3 and 4 (lines 70-92): generate_response, then the response dict
GenerateLLM ==
    /\ pc = "llm"
    /\ \E groq_reply \in ProviderReplies, openai_reply \in OpenaiReplies :
         LET g == GenerateResponse(api_manager, stats, TRUE, groq_reply, openai_reply)
         IN  /\ stats' = g.stats
             /\ last' = [op |-> "generate", done |-> TRUE, before |-> last.before,
                         raised |-> g.result, tried |-> g.tried,
                         reported |-> IF g.tried = <<>> THEN {}
                                      ELSE IF g.tried[Len(g.tried)] = "groq"
                                           THEN {groq_reply} ELSE {openai_reply},
                         messages |-> Messages(frame.user_prompt),
                         result |-> IF g.result.kind = "error"
                                    THEN Reraise(g.result)
                                    ELSE FormatResponse(frame.query, frame.faculty,
                                                        frame.sources, g.result)]
    /\ stages' = Append(stages, "llm")
    /\ pc' = "idle"
    /\ UNCHANGED <<env, api_manager, collection, next_uuid, frame, chunker, vs, disk, adder>>

TextLens == {90, 800, 1000, 1500}
BlankSets == { {}, {400}, {800, 801}, {701, 702}, 701..1000 }
ChunkSizeArgs == {0, 800, 300, 50}
OverlapArgs == {0, 100, 300, 50}

\* chunk_document is entered.
ChunkCall ==
    /\ pc = "idle"
    /\ chunker.pc \in {"idle", "done"}
    /\ \E n \in TextLens, blanks \in BlankSets, chunk_size \in ChunkSizeArgs,
          overlap \in OverlapArgs :
         chunker' = ChunkEnter(Text(n, blanks), chunk_size, overlap)
    /\ UNCHANGED <<env, api_manager, stats, collection, next_uuid, pc, frame, stages,
                   last, vs, disk, adder>>

\* The loop condition holds: one more iteration.
ChunkStep ==
    /\ chunker.pc = "loop"
    /\ chunker.start < Len(chunker.content)
    /\ Len(chunker.windows) < MaxIters
    /\ chunker' = ChunkIterate(chunker)
    /\ UNCHANGED <<env, api_manager, stats, collection, next_uuid, pc, frame, stages,
                   last, vs, disk, adder>>

\* The loop condition fails: chunk_document returns chunks.
ChunkReturn ==
    /\ chunker.pc = "loop"
    /\ ~(chunker.start < Len(chunker.content))
    /\ chunker' = [chunker EXCEPT !.pc = "done"]
    /\ UNCHANGED <<env, api_manager, stats, collection, next_uuid, pc, frame, stages,
                   last, vs, disk, adder>>

\* get_vector_store(): the instances after the call; the global is
\* constructed when it is still None.
GetVectorStore(v) ==
    IF v.global = 0
    THEN [v EXCEPT !.global = v.constructed + 1, !.constructed = v.constructed + 1]
    ELSE v

\* DocumentRetriever.__init__ (through get_retriever)
NewRetriever ==
    /\ pc = "idle"
    /\ vs.retriever = 0
    /\ vs' = [GetVectorStore(vs) EXCEPT !.retriever = GetVectorStore(vs).global]
    /\ UNCHANGED <<env, api_manager, stats, collection, next_uuid, pc, frame, stages,
                   last, chunker, disk, adder>>

\* KnowledgeBaseBuilder.__init__
NewBuilder ==
    /\ pc = "idle"
    /\ vs' = [GetVectorStore(vs) EXCEPT !.builder = GetVectorStore(vs).global]
    /\ UNCHANGED <<env, api_manager, stats, collection, next_uuid, pc, frame, stages,
                   last, chunker, disk, adder>>

\* A caller invokes prepare_documents_for_vectorstore on the loaded documents.
CallPrepareDocuments ==
    /\ pc = "idle"
    /\ vs.builder # 0
    /\ last' = [op |-> "prepare", result |-> PrepareDocuments(disk),
                total_chunks |-> TotalChunksAdded(disk)]
    /\ UNCHANGED <<env, api_manager, stats, collection, next_uuid, pc, frame, stages,
                   chunker, vs, disk, adder>>

\* KnowledgeBaseBuilder.build_knowledge_base(rebuild): the delete step (whose
\* failure is logged and ignored), loading, preparing and add_documents with
\* batch_size=100.
BuildKnowledgeBase ==
    /\ pc = "idle"
    /\ vs.builder # 0
    /\ LET prepared == PrepareDocuments(disk)
       IN  \E rebuild \in BOOLEAN, delete_ok \in BOOLEAN, fail_batch \in 0..1 :
             LET deleted == rebuild /\ delete_ok
                 coll1   == IF deleted THEN <<>> ELSE collection
                 a       == AddDocuments(coll1, next_uuid, prepared, 100, fail_batch)
             IN  /\ deleted => vs.constructed < MaxInstances
                 /\ Len(coll1) + Len(prepared) <= MaxBuilt
                 /\ vs' = IF deleted
                          THEN [vs EXCEPT !.builder = vs.constructed + 1,
                                          !.constructed = vs.constructed + 1]
                          ELSE vs
                 /\ collection' = a.collection
                 /\ next_uuid' = a.next_uuid
                 /\ last' = [op |-> "build", rebuild |-> rebuild,
                             delete_ok |-> delete_ok, raised |-> a.raised]
    /\ UNCHANGED <<env, api_manager, stats, pc, frame, stages, chunker, disk, adder>>

\* The chat application: the index is built, the generator answers queries.
Next ==
    \/ GetApiManager
    \/ CallAddDocuments
    \/ GenerateStart
    \/ GenerateRetrieve
    \/ GenerateCompose
    \/ GenerateLLM

Spec == Init /\ [][Next]_vars

\* The LLM API manager on its own, driven by direct callers.
NextLLM ==
    \/ GetApiManager
    \/ CallGenerateResponse

SpecLLM == Init /\ [][NextLLM]_vars

\* The vector store and the retriever on their own, in a deployment with
\* both API keys set.
InitRetriever ==
    /\ Init
    /\ env = [GROQ_API_KEY |-> TRUE, OPENAI_API_KEY |-> TRUE]

NextRetriever ==
    \/ CallAddDocuments
    \/ CallRetrieve
    \/ CallRetrieveWithContext

SpecRetriever == InitRetriever /\ [][NextRetriever]_vars

\* The knowledge base builder's chunking, in a deployment with both API keys
\* set.
NextChunker ==
    \/ ChunkCall
    \/ ChunkStep
    \/ ChunkReturn

SpecChunker == InitRetriever /\ [][NextChunker]_vars

\* A caller invokes add_documents on the vector store; the loop is followed
\* batch by batch.
AddCall ==
    /\ pc = "idle"
    /\ adder.pc \in {"idle", "returned"}
    /\ \E n \in 0..MaxDocs, batch_size \in BatchSizes :
         /\ Len(collection) + n <= MaxIndex
         /\ \E documents \in [1..n -> DocPool] :
              adder' = AddEnter(collection, documents, batch_size)
    /\ UNCHANGED <<env, api_manager, stats, collection, next_uuid, pc, frame, stages,
                   last, chunker, vs, disk>>

\* One batch of the loop: it is written, or it fails.
AddStep ==
    /\ adder.pc = "loop"
    /\ \E ok \in BOOLEAN :
         LET s == AddBatch(adder, collection, next_uuid, ok)
         IN  /\ adder' = s.adder
             /\ collection' = s.collection
             /\ next_uuid' = s.next_uuid
    /\ UNCHANGED <<env, api_manager, stats, pc, frame, stages, last, chunker, vs, disk>>

\* add_documents returns to its caller or raises to it.
AddReturn ==
    /\ adder.pc = "done"
    /\ adder' = [adder EXCEPT !.pc = "returned"]
    /\ last' = [op |-> "add_documents", n |-> Len(adder.documents),
                raised |-> adder.raised]
    /\ UNCHANGED <<env, api_manager, stats, collection, next_uuid, pc, frame, stages,
                   chunker, vs, disk>>

NextStore ==
    \/ AddCall
    \/ AddStep
    \/ AddReturn

\* The vector store filled batch by batch.
SpecStore == InitRetriever /\ [][NextStore]_vars

\* A caller invokes add_documents with documents of which some bring an id.
AddIdCall ==
    /\ pc = "idle"
    /\ adder.pc \in {"idle", "returned"}
    /\ \E n \in 0..MaxDocs, batch_size \in BatchSizes :
         /\ Len(collection) + n <= MaxIndex
         /\ next_uuid + n <= MaxIndex
         /\ \E documents \in [1..n -> DocPool \cup IdDocPool] :
              adder' = AddEnter(collection, documents, batch_size)
    /\ UNCHANGED <<env, api_manager, stats, collection, next_uuid, pc, frame, stages,
                   last, chunker, vs, disk>>

NextIds ==
    \/ AddIdCall
    \/ AddStep
    \/ AddReturn

\* The vector store filled with documents with and without ids.
SpecIds == InitRetriever /\ [][NextIds]_vars

\* The index the builder left on disk before the application started
BuiltIndex ==
    AddDocuments(<<>>, 0,
                 [i \in 1..2 |-> CHOOSE d \in DocPool :
                                    d.content = (IF i = 1 THEN "admission" ELSE "courses")],
                 100, 0).collection

\* The chat application starts on an index that is empty or was built earlier.
InitApp ==
    /\ env = [GROQ_API_KEY |-> TRUE, OPENAI_API_KEY |-> TRUE]
    /\ api_manager = NoManager
    /\ stats = ZeroStats
    /\ collection \in {<<>>, BuiltIndex}
    /\ next_uuid = Len(collection)
    /\ pc = "idle"
    /\ frame = NoFrame
    /\ stages = <<>>
    /\ last = [op |-> "none"]
    /\ chunker = NoChunker
    /\ vs = [global |-> 0, constructed |-> 0, retriever |-> 0, builder |-> 0]
    /\ disk = <<>>
    /\ adder = NoAdder

\* A caller invokes generate_embedding on the embedding generator.
CallGenerateEmbedding ==
    /\ pc = "idle"
    /\ \E text \in Queries :
         last' = [op |-> "generate_embedding", text |-> text,
                  result |-> GenerateEmbedding(text)]
    /\ UNCHANGED <<env, api_manager, stats, collection, next_uuid, pc, frame, stages,
                   chunker, vs, disk, adder>>

\* A caller invokes generate_embeddings on the embedding generator.
CallGenerateEmbeddings ==
    /\ pc = "idle"
    /\ \E n \in 0..MaxDocs :
         \E texts \in [1..n -> Queries] :
            last' = [op |-> "generate_embeddings", texts |-> texts,
                     result |-> GenerateEmbeddings(texts)]
    /\ UNCHANGED <<env, api_manager, stats, collection, next_uuid, pc, frame, stages,
                   chunker, vs, disk, adder>>

NextApp ==
    \/ CallGenerateEmbedding
    \/ CallGenerateEmbeddings
    \/ CallRetrieve
    \/ GetApiManager
    \/ GenerateStart
    \/ GenerateRetrieve
    \/ GenerateCompose
    \/ GenerateLLM

\* The embedder, the retriever and the generator of the chat application.
SpecApp == InitApp /\ [][NextApp]_vars

\* Distances of search results: the smallest, the largest, and those around
\* each twentieth of the range
Distances ==
    {d \in 0..MaxDistance : d < 25 \/ d > MaxDistance - 45 \/ d % 1000 \in {0, 5, 10, 15}}

\* Search results, ordered by distance as search returns them
SearchResults ==
    {<< [document |-> "admission", metadata |-> EmptyMap, distance |-> d1],
        [document |-> "courses", metadata |-> EmptyMap, distance |-> d2] >> :
            d1 \in Distances, d2 \in Distances}

\* The retriever has the results of a search in hand.
InitScore ==
    /\ env = [GROQ_API_KEY |-> TRUE, OPENAI_API_KEY |-> TRUE]
    /\ api_manager = NoManager
    /\ stats = ZeroStats
    /\ collection = <<>>
    /\ next_uuid = 0
    /\ pc = "idle"
    /\ frame = NoFrame
    /\ stages = <<>>
    /\ \E found \in SearchResults :
         /\ found[1].distance <= found[2].distance
         /\ last = [op |-> "search", found |-> found]
    /\ chunker = NoChunker
    /\ vs = [global |-> 0, constructed |-> 0, retriever |-> 0, builder |-> 0]
    /\ disk = <<>>
    /\ adder = NoAdder

\* retrieve's loop over the search results
EnhanceResults ==
    /\ pc = "idle"
    /\ last.op = "search"
    /\ last' = [op |-> "enhanced", found |-> last.found, results |-> Enhance(last.found)]
    /\ UNCHANGED <<env, api_manager, stats, collection, next_uuid, pc, frame, stages,
                   chunker, vs, disk, adder>>

NextScore == EnhanceResults

SpecScore == InitScore /\ [][NextScore]_vars

\* The knowledge base builder and the holders of the vector store, over the
\* raw documents found in the data files.
InitBuilder ==
    /\ env = [GROQ_API_KEY |-> TRUE, OPENAI_API_KEY |-> TRUE]
    /\ api_manager = NoManager
    /\ stats = ZeroStats
    /\ collection = <<>>
    /\ next_uuid = 0
    /\ pc = "idle"
    /\ frame = NoFrame
    /\ stages = <<>>
    /\ last = [op |-> "none"]
    /\ chunker = NoChunker
    /\ vs = [global |-> 0, constructed |-> 0, retriever |-> 0, builder |-> 0]
    /\ disk \in RawDocSeqs
    /\ adder = NoAdder

NextBuilder ==
    \/ NewRetriever
    \/ NewBuilder
    \/ CallPrepareDocuments
    \/ BuildKnowledgeBase

SpecBuilder == InitBuilder /\ [][NextBuilder]_vars

\* A builder preparing raw documents, those around the pre-filter included.
InitPrepare ==
    /\ env = [GROQ_API_KEY |-> TRUE, OPENAI_API_KEY |-> TRUE]
    /\ api_manager = NoManager
    /\ stats = ZeroStats
    /\ collection = <<>>
    /\ next_uuid = 0
    /\ pc = "idle"
    /\ frame = NoFrame
    /\ stages = <<>>
    /\ last = [op |-> "none"]
    /\ chunker = NoChunker
    /\ vs = [global |-> 0, constructed |-> 0, retriever |-> 0, builder |-> 0]
    /\ disk \in EdgeDocSeqs
    /\ adder = NoAdder

NextPrepare ==
    \/ NewBuilder
    \/ CallPrepareDocuments

SpecPrepare == InitPrepare /\ [][NextPrepare]_vars

(***************************************************************************)
(* Properties of the LLM API manager (checked under SpecLLM)               *)
(***************************************************************************)

ResponseCall == last.op = "generate_response"

\* The case "both configured, primary fails, fallback succeeds, use_fallback"
FailoverCase ==
    /\ ResponseCall
    /\ api_manager.groq_client /\ api_manager.openai_client
    /\ last.use_fallback /\ ~last.groq_ok /\ last.openai_ok

\* C1 as stated: in the failover case the response's provider field is
\* "fallback", and exactly one primary-error and one fallback-call increment
\* are the call's only counter changes.
C1_AsStated ==
    FailoverCase =>
        /\ last.result.kind = "ok"
        /\ last.result.provider = "fallback"
        /\ stats = [last.before EXCEPT !.groq_errors = @ + 1, !.openai_calls = @ + 1]

\* C1 amended: in the failover case the response's provider field is "openai",
\* the name of the fallback provider, and exactly one primary-error
\* (groq_errors) and one fallback-call (openai_calls) increment are the
\* call's only counter changes.
C1_Failover ==
    FailoverCase =>
        /\ last.result.kind = "ok"
        /\ last.result.provider = "openai"
        /\ last.result.model = OPENAI_MODEL
        /\ stats = [last.before EXCEPT !.groq_errors = @ + 1, !.openai_calls = @ + 1]

C1_Witness ==
    /\ FailoverCase
    /\ last.result.kind = "ok"
    /\ stats.groq_errors = 1 /\ stats.openai_calls = 1

\* The case "primary configured and its attempt succeeds"
PrimarySuccessCase ==
    /\ ResponseCall
    /\ api_manager.groq_client
    /\ last.groq_ok

\* C2 as stated: when the primary attempt succeeds the response records
\* provider "primary", the fallback is not attempted and its counters are
\* unchanged.
C2_AsStated ==
    PrimarySuccessCase =>
        /\ last.result.kind = "ok"
        /\ last.result.provider = "primary"
        /\ last.tried = <<"groq">>
        /\ stats.openai_calls = last.before.openai_calls
        /\ stats.openai_errors = last.before.openai_errors

\* C2 amended: when the primary attempt succeeds the response records provider
\* "groq", the name of the primary provider, the call returns with the
\* primary as its only attempt, and the fallback counters are unchanged.
C2_PrimaryReturnsImmediately ==
    PrimarySuccessCase =>
        /\ last.result.kind = "ok"
        /\ last.result.provider = "groq"
        /\ last.tried = <<"groq">>
        /\ stats.openai_calls = last.before.openai_calls
        /\ stats.openai_errors = last.before.openai_errors

C2_Witness ==
    /\ PrimarySuccessCase
    /\ api_manager.openai_client
    /\ last.result.kind = "ok"
    /\ last.tried = <<"groq">>

\* C3: when the primary attempt fails and use_fallback is false, the call
\* raises the primary's own error, the fallback is never attempted (also when
\* it is configured) and the fallback counters are unchanged.
C3_NoFallbackWhenDisallowed ==
    (ResponseCall /\ api_manager.groq_client /\ ~last.groq_ok /\ ~last.use_fallback) =>
        /\ last.result = CallGroq([ok |-> FALSE])
        /\ last.result.kind = "error"
        /\ last.result.origin = "groq"
        /\ last.tried = <<"groq">>
        /\ stats.openai_calls = last.before.openai_calls
        /\ stats.openai_errors = last.before.openai_errors

C3_Witness ==
    /\ ResponseCall
    /\ api_manager.groq_client /\ api_manager.openai_client
    /\ ~last.groq_ok /\ ~last.use_fallback /\ last.openai_ok
    /\ last.result.kind = "error"

\* C4: when both providers are configured, use_fallback is true and both
\* attempts fail, no response is returned and the raised error carries the
\* fallback's failure cause.
C4_BothFail ==
    (/\ ResponseCall
     /\ api_manager.groq_client /\ api_manager.openai_client
     /\ last.use_fallback /\ ~last.groq_ok /\ ~last.openai_ok) =>
        /\ last.result.kind = "error"
        /\ last.result.origin = "openai"
        /\ last.tried = <<"groq", "openai">>

C4_Witness ==
    /\ ResponseCall
    /\ api_manager.groq_client /\ api_manager.openai_client
    /\ last.use_fallback /\ ~last.groq_ok /\ ~last.openai_ok
    /\ last.tried = <<"groq", "openai">>

\* C5: constructing the manager with no usable provider client fails at
\* construction with a configuration error (ValueError) and leaves no manager;
\* every manager that exists has at least one client, and every
\* generate_response call attempts at least one provider.
C5_EagerConfigurationCheck ==
    /\ (/\ last.op = "get_api_manager" /\ last.constructing
        /\ ~last.groq_usable /\ ~last.openai_usable)
          => (last.result.kind = "error" /\ ~api_manager.exists)
    /\ api_manager.exists => (api_manager.groq_client \/ api_manager.openai_client)
    /\ ResponseCall => last.tried # <<>>

C5_Witness ==
    /\ last.op = "get_api_manager" /\ last.constructing
    /\ env.GROQ_API_KEY
    /\ ~last.groq_usable /\ ~last.openai_usable
    /\ last.result.kind = "error"

\* The reply the provider gave in the last generate_response call
ReplyOk(provider) == IF provider = "groq" THEN last.groq_ok ELSE last.openai_ok

\* C6: a generate_response call raises only after every provider that is
\* configured and permitted for the call has been attempted and has failed;
\* the primary is attempted before the fallback, each provider at most once,
\* and the call returns the response of the first attempt that succeeds.
C6_FallbackChain ==
    ResponseCall =>
        /\ last.tried \in {<<"groq">>, <<"openai">>, <<"groq", "openai">>}
        /\ last.result.kind = "error" =>
              /\ api_manager.groq_client => ("groq" = last.tried[1] /\ ~last.groq_ok)
              /\ (api_manager.openai_client /\ last.use_fallback) =>
                    (\E i \in 1..Len(last.tried) : last.tried[i] = "openai") /\ ~last.openai_ok
        /\ last.result.kind = "ok" =>
              /\ last.result.provider = last.tried[Len(last.tried)]
              /\ \A i \in 1..Len(last.tried) : ReplyOk(last.tried[i]) <=> i = Len(last.tried)

C6_Witness ==
    /\ ResponseCall
    /\ last.tried = <<"groq", "openai">>
    /\ last.result.kind = "error"
    /\ stats.groq_errors >= 1 /\ stats.openai_errors >= 1 /\ stats.groq_calls >= 1

(***************************************************************************)
(* Properties of the retriever (checked under SpecRetriever)               *)
(***************************************************************************)

ContextCall == last.op = "retrieve_with_context" /\ last.result.kind = "ok"

\* A token of a context is a source reference
IsSourceRef(tok) == \E n \in 1..(MaxIndex + 1) : tok = SourceRef(n)

\* Positions of the source references in a context
MarkerPositions(ctx) == {p \in 1..Len(ctx) : IsSourceRef(ctx[p])}

\* Position of the n-th source reference of a context
NthMarker(ctx, n) ==
    CHOOSE p \in MarkerPositions(ctx) :
        Cardinality({q \in MarkerPositions(ctx) : q < p}) = n - 1

\* The tokens of the entry the n-th source reference opens: those after the
\* reference's newline, up to the entry's closing newline.
EntryContent(ctx, n) ==
    LET p    == NthMarker(ctx, n)
        nxt  == IF n < Cardinality(MarkerPositions(ctx))
                THEN NthMarker(ctx, n + 1) - 3      \* closing newline of entry n
                ELSE Len(ctx)
    IN  SubSeq(ctx, p + 2, nxt - 1)

\* C7: in every result of retrieve_with_context, sources[i].id = i + 1 for
\* every 0-based index i (contiguous from 1), the context holds as many
\* [Source N] markers as there are sources, the n-th marker is [Source n], and
\* the entry it opens holds the content of the retrieved result that
\* sources[n-1] summarises.
C7_CitationAlignment ==
    ContextCall =>
        LET ctx     == last.result.context
            sources == last.result.sources
            results == last.retrieved.results
        IN  /\ Len(sources) = Len(results)
            /\ last.result.num_sources = Len(sources)
            /\ Cardinality(MarkerPositions(ctx)) = Len(sources)
            /\ \A n \in 1..Len(sources) :
                 /\ sources[n].id = n
                 /\ ctx[NthMarker(ctx, n)] = SourceRef(n)
                 /\ EntryContent(ctx, n) = <<results[n].content>>
                 /\ results[n].rank = n
                 /\ sources[n].relevance_score = results[n].relevance_score
                 /\ sources[n].faculty = Get(results[n].metadata, "faculty", "")
                 /\ sources[n].source_type = Get(results[n].metadata, "source_type", "")
                 /\ sources[n].title = Get(results[n].metadata, "title", "Untitled")
                 /\ sources[n].url = Get(results[n].metadata, "url", "")

C7_Witness ==
    /\ ContextCall
    /\ Len(last.result.sources) = 3
    /\ last.result.sources[1].faculty # last.result.sources[3].faculty
    /\ last.result.sources[2].title = "Untitled"
    /\ last.result.context[7] = SourceRef(2)

Absent == "<absent>"

\* No stored item satisfies the filter that the arguments ask for
ZeroMatch(faculty, source_type) ==
    \A i \in 1..Len(collection) :
        \/ Truthy(faculty) /\ Get(collection[i].metadata, "faculty", Absent) # faculty
        \/ Truthy(source_type) /\ Get(collection[i].metadata, "source_type", Absent) # source_type

\* C8: a retrieval (with a non-blank query) whose filter matches no stored
\* item, or that runs against an empty index, does not raise: retrieve
\* returns the empty sequence, retrieve_with_context the empty context and
\* the empty source list.
C8_EmptyResultSafety ==
    /\ (last.op = "retrieve" /\ ~IsBlank(last.query)
        /\ ZeroMatch(last.faculty, last.source_type))
          => (last.result.kind = "ok" /\ last.result.results = <<>>)
    /\ (last.op = "retrieve_with_context" /\ ~IsBlank(last.query)
        /\ ZeroMatch(last.faculty, None))
          => /\ last.result.kind = "ok"
             /\ last.result.context = <<>>
             /\ last.result.sources = <<>>
             /\ last.result.num_sources = 0

C8_Witness ==
    /\ last.op = "retrieve_with_context" /\ ~IsBlank(last.query)
    /\ Len(collection) >= 2
    /\ last.faculty = "FAS"
    /\ ZeroMatch(last.faculty, None)
    /\ last.result.kind = "ok" /\ last.result.sources = <<>>

RetrieveCall == last.op = "retrieve" /\ last.result.kind = "ok"

\* The results of the last retrieve are at most top_k and all of faculty f
AtMostKAllOfFaculty ==
    /\ Len(last.result.results) <= last.top_k
    /\ \A i \in 1..Len(last.result.results) :
         Get(last.result.results[i].metadata, "faculty", Absent) = last.faculty

\* C9 as stated: for any index contents, any faculty argument f (any string)
\* and any top_k >= 1, retrieve returns at most top_k results, all with
\* metadata.faculty = f.
C9_AsStated ==
    (RetrieveCall /\ last.faculty # None /\ last.top_k >= 1) => AtMostKAllOfFaculty

\* C9 amended: for any index contents, any non-empty faculty argument f and
\* any top_k >= 1, retrieve returns at most top_k results, all with
\* metadata.faculty = f.
C9_FilteredTopK ==
    (RetrieveCall /\ last.faculty # None /\ last.faculty # "" /\ last.top_k >= 1)
        => AtMostKAllOfFaculty

C9_Witness ==
    /\ RetrieveCall
    /\ last.faculty = "FTS" /\ last.top_k = 1 /\ last.source_type = None
    /\ Len(last.result.results) = 1
    /\ Cardinality({i \in 1..Len(collection) : collection[i].metadata.faculty = "FTS"}) >= 2
    /\ \E i \in 1..Len(collection) : collection[i].metadata.faculty = "FAS"

(***************************************************************************)
(* Properties of the response generator (checked under Spec)               *)
(***************************************************************************)

AllStages == <<"retrieve", "compose", "llm">>

IsPrefix(a, b) == Len(a) <= Len(b) /\ a = SubSeq(b, 1, Len(a))

GenerateDone == last.op = "generate" /\ last.done

\* C10: a generate call runs retrieval, prompt composition and the LLM call
\* in that order, each at most once, and all three when it returns; when a
\* stage raises no later stage runs (after a retrieval failure no provider is
\* attempted and no counter moves), the caller gets that same exception, and
\* no response is returned.
C10_StrictSequence ==
    /\ IsPrefix(stages, AllStages)
    /\ (pc = "idle" /\ last.op = "generate") => last.done
    /\ GenerateDone =>
         /\ last.result.kind = "ok" => (stages = AllStages /\ last.raised.kind = "ok")
         /\ last.raised.kind = "error" =>
              /\ last.result = last.raised
              /\ last.raised.origin = "embedder" =>
                    (stages = <<"retrieve">> /\ last.tried = <<>> /\ stats = last.before)
              /\ last.raised.origin # "embedder" => stages = AllStages

C10_Witness ==
    /\ GenerateDone
    /\ pc = "idle"
    /\ last.raised.kind = "error" /\ last.raised.origin = "embedder"
    /\ last.result.kind = "error"
    /\ stages = <<"retrieve">>
    /\ Len(collection) >= 1

(***************************************************************************)
(* Properties of chunk_document (checked under SpecChunker)                *)
(***************************************************************************)

\* chunk_document has returned for a text at least one window long
ChunkedLong ==
    /\ chunker.pc = "done"
    /\ Len(chunker.content) >= chunker.chunk_size

DropFirst(text, n) == SubSeq(text, n + 1, Len(text))

RECURSIVE Reconstruct(_, _)
\* The first chunk followed by every later chunk without its first `overlap`
\* characters
Reconstruct(chunks, overlap) ==
    IF chunks = <<>> THEN <<>>
    ELSE IF Len(chunks) = 1 THEN chunks[1]
    ELSE Reconstruct(SubSeq(chunks, 1, Len(chunks) - 1), overlap)
            \o DropFirst(chunks[Len(chunks)], overlap)

\* The text a window covers
WindowText(w) == PySlice(chunker.content, w[1], w[2])

\* No window of the last call begins or ends with a whitespace character
CleanWindows ==
    \A k \in 1..Len(chunker.windows) :
        LET t == WindowText(chunker.windows[k])
        IN  t # <<>> /\ IsInk(t[1]) /\ IsInk(t[Len(t)])

\* C11 as stated: for every content with len(content) >= chunk_size, also
\* with whitespace at window boundaries, the chunks without their overlaps
\* concatenate to the content.
C11_AsStated ==
    ChunkedLong => Reconstruct(chunker.chunks, chunker.overlap) = chunker.content

\* C11 amended: for every content with len(content) >= chunk_size of which no
\* window begins or ends with whitespace, the chunks without their overlaps
\* concatenate to the content.
C11_ChunkCoverage ==
    (ChunkedLong /\ CleanWindows)
        => Reconstruct(chunker.chunks, chunker.overlap) = chunker.content

C11_Witness ==
    /\ ChunkedLong /\ CleanWindows
    /\ Len(chunker.content) = 1500
    /\ chunker.content[400] = 32
    /\ Len(chunker.chunks) = 3
    /\ Len(chunker.chunks[3]) = 100

\* The windows the contract describes for the arguments of the last call:
\* window k (from 0) is [k * step, k * step + chunk_size), for every k with
\* k * step < len(content), where step = chunk_size - overlap.
ContractWindows ==
    LET step == chunker.arg_chunk_size - chunker.arg_overlap
        n    == (Len(chunker.content) + step - 1) \div step
    IN  [k \in 1..n |-> <<(k - 1) * step, (k - 1) * step + chunker.arg_chunk_size>>]

\* C13: for caller-supplied chunk_size and overlap with 0 <= overlap <
\* chunk_size, chunk_document returns having cut exactly the windows
\* [k * (chunk_size - overlap), k * (chunk_size - overlap) + chunk_size),
\* truncated at the end of the content.
C13_WindowsAsStated ==
    (/\ chunker.pc = "done"
     /\ chunker.arg_chunk_size >= 1
     /\ chunker.arg_overlap >= 0 /\ chunker.arg_overlap < chunker.arg_chunk_size)
        => chunker.windows = ContractWindows

\* C14: a call with overlap >= chunk_size is rejected with a configuration
\* error before any window is cut.
C14_RejectsOverlapAsStated ==
    (chunker.pc # "idle" /\ chunker.overlap >= chunker.chunk_size)
        => (chunker.pc = "raised" /\ chunker.windows = <<>>)

(***************************************************************************)
(* C12: chunk numbering                                                    *)
(***************************************************************************)

\* The raw documents of the data files that are chunked: not skipped as too
\* short and at least CHUNK_SIZE characters long
ChunkedDocs ==
    SelectSeq(disk, LAMBDA d : Len(Strip(d.content)) >= 100 /\ Len(d.content) >= CHUNK_SIZE)

\* Windows of the configured size and overlap over content that hold a
\* non-whitespace character
InkWindows(content) ==
    LET step == CHUNK_SIZE - CHUNK_OVERLAP
    IN  Cardinality({k \in 0..(Len(content) \div step) :
                       /\ k * step < Len(content)
                       /\ \E i \in (k * step + 1)..(k * step + CHUNK_SIZE) :
                            i <= Len(content) /\ IsInk(content[i])})

\* InkWindows of each raw document of the pool
InkWindowsOf == [d \in RawPool |-> InkWindows(d.content)]

IsChunk(entry) == "chunk_index" \in DOMAIN entry.metadata

\* Positions of the prepared documents that carry chunk_index "0"
RunStarts(result) ==
    {p \in 1..Len(result) :
        IsChunk(result[p]) /\ result[p].metadata.chunk_index = PyStr("0")}

NthStart(result, n) ==
    CHOOSE p \in RunStarts(result) :
        Cardinality({q \in RunStarts(result) : q < p}) = n - 1

\* C12: after prepare_documents_for_vectorstore, the chunks of the n-th
\* chunked document are emitted consecutively with chunk_index "0", "1", ...
\* up to total_chunks - 1, total_chunks is the same on all of them and is the
\* number of its non-blank windows, and no other prepared document carries a
\* chunk_index.
C12_ChunkNumbering ==
    last.op = "prepare" =>
        LET r == last.result
            tot(n) == InkWindowsOf[ChunkedDocs[n]]
        IN  /\ Cardinality(RunStarts(r)) = Len(ChunkedDocs)
            /\ \A n \in 1..Len(ChunkedDocs) :
                 \A i \in 0..(tot(n) - 1) :
                    /\ NthStart(r, n) + i <= Len(r)
                    /\ IsChunk(r[NthStart(r, n) + i])
                    /\ r[NthStart(r, n) + i].metadata.chunk_index = PyStr(ToString(i))
                    /\ r[NthStart(r, n) + i].metadata.total_chunks = PyStr(ToString(tot(n)))
            /\ \A q \in 1..Len(r) :
                 IsChunk(r[q]) =>
                    \E n \in 1..Len(ChunkedDocs) :
                        q - NthStart(r, n) \in 0..(tot(n) - 1)

\* Two chunked documents were prepared, the second with a blank window that
\* was discarded.
C12_Witness ==
    /\ last.op = "prepare"
    /\ Len(disk) = 2
    /\ Len(ChunkedDocs) = 2
    /\ Len(disk[2].content) = 1500
    /\ Len(last.result) = 4
    /\ last.result[4].metadata.chunk_index = PyStr("1")
    /\ last.result[4].metadata.total_chunks = PyStr("2")

(***************************************************************************)
(* C18: the vector store singleton                                         *)
(***************************************************************************)

\* C18 as stated: at most one VectorStore instance is ever constructed, and
\* the retriever and the knowledge base builder, also after a rebuild, hold
\* the instance get_vector_store returns.
C18_SingletonAsStated ==
    /\ vs.constructed <= 1
    /\ vs.retriever # 0 => vs.retriever = vs.global
    /\ vs.builder # 0 => vs.builder = vs.global

(***************************************************************************)
(* C15, C16: relevance scores                                              *)
(***************************************************************************)

\* max(0, 1 - distance / 2), in units of 1/20000
Exact(distance) == IF distance >= 20000 THEN 0 ELSE 20000 - distance

\* score (in thousandths) is Exact(distance) rounded to 3 decimals: a nearest
\* thousandth, the even one of two
RoundedTo3(score, distance) ==
    LET diff == 20 * score - Exact(distance)
    IN  /\ diff \in -10..10
        /\ diff \in {-10, 10} => score % 2 = 0

\* C15 as stated: every result's relevance_score is max(0, 1 - distance/2)
\* rounded to 3 decimals, lies in [0, 1], is 0 for distance >= 2 and is 1
\* only at distance 0.
C15_AsStated ==
    last.op = "enhanced" =>
        \A i \in 1..Len(last.results) :
            LET d == last.found[i].distance
                score == last.results[i].relevance_score
            IN  /\ RoundedTo3(score, d)
                /\ score \in 0..1000
                /\ d >= 20000 => score = 0
                /\ score = 1000 => d = 0

\* C15 amended: every result's relevance_score is max(0, 1 - distance/2)
\* rounded to 3 decimals, lies in [0, 1], is 0 for distance >= 2, is 1 for
\* every distance below 0.001 and is below 1 for every distance above 0.001.
C15_ScoreRange ==
    last.op = "enhanced" =>
        \A i \in 1..Len(last.results) :
            LET d == last.found[i].distance
                score == last.results[i].relevance_score
            IN  /\ RoundedTo3(score, d)
                /\ score \in 0..1000
                /\ d >= 20000 => score = 0
                /\ d < 10 => score = 1000
                /\ d > 10 => score < 1000

\* A result at distance 0.0004 scored 1.0 and one beyond distance 2 scored 0.
C15_Witness ==
    /\ last.op = "enhanced"
    /\ last.found[1].distance = 4
    /\ last.results[1].relevance_score = 1000
    /\ last.found[2].distance > 20000
    /\ last.results[2].relevance_score = 0

\* C16: of two results with distances d1 < d2 the first scores at least as
\* high as the second; rank is the 1-based position, so relevance_score does
\* not increase with rank.
C16_ScoreMonotone ==
    last.op = "enhanced" =>
        /\ \A i \in 1..Len(last.results) : last.results[i].rank = i
        /\ \A i, j \in 1..Len(last.results) :
             last.found[i].distance < last.found[j].distance
                => /\ last.results[i].rank < last.results[j].rank
                   /\ last.results[i].relevance_score >= last.results[j].relevance_score

\* Two results at different distances below 2: rank 1 scored strictly higher.
C16_Witness ==
    /\ last.op = "enhanced"
    /\ last.found[1].distance < last.found[2].distance
    /\ last.found[2].distance < 20000
    /\ last.results[1].rank = 1
    /\ last.results[2].rank = 2
    /\ last.results[1].relevance_score > last.results[2].relevance_score

(***************************************************************************)
(* C17: batches of add_documents                                           *)
(***************************************************************************)

\* Batches of the call in progress that were written
WrittenBatches == IF adder.raised THEN adder.attempted - 1 ELSE adder.attempted

\* Documents of the call in progress that those batches hold
WrittenDocs ==
    IF WrittenBatches * adder.batch_size > Len(adder.documents)
    THEN Len(adder.documents)
    ELSE WrittenBatches * adder.batch_size

\* C17: during and after an add_documents call the collection is what it was
\* before the call followed by the documents of the batches written so far,
\* in input order; once a batch has failed the loop is over, nothing of that
\* batch or of a later one is in the collection, the batches before it are,
\* and the caller gets the error; a call that ends without error has written
\* every document.
C17_BatchesInOrder ==
    adder.pc # "idle" =>
        /\ Len(collection) = Len(adder.before) + WrittenDocs
        /\ SubSeq(collection, 1, Len(adder.before)) = adder.before
        /\ \A j \in 1..WrittenDocs :
             /\ collection[Len(adder.before) + j].document = adder.documents[j].content
             /\ DOMAIN collection[Len(adder.before) + j].metadata
                    = DOMAIN adder.documents[j].metadata
        /\ adder.raised => adder.pc \in {"done", "returned"}
        /\ adder.pc = "loop" => adder.i = WrittenDocs /\ adder.i < Len(adder.documents)
        /\ (adder.pc \in {"done", "returned"} /\ ~adder.raised)
                => WrittenDocs = Len(adder.documents)
        /\ adder.pc = "returned"
                => last.op = "add_documents" /\ last.raised = adder.raised

\* The second of two batches failed: the caller got the error and the first
\* batch is in the collection.
C17_Witness ==
    /\ adder.pc = "returned"
    /\ adder.raised
    /\ last.raised
    /\ adder.batch_size = 1
    /\ Len(adder.documents) = 2
    /\ adder.attempted = 2
    /\ Len(collection) = Len(adder.before) + 1

(***************************************************************************)
(* C19: empty and blank texts                                              *)
(***************************************************************************)

\* The ValueError the embedder raises
IsInputError(r) == r.kind = "error" /\ r.type = "ValueError" /\ r.origin = "embedder"

\* C19: generate_embedding of an empty or whitespace-only text and
\* generate_embeddings of an empty list raise the embedder's ValueError;
\* retrieve with such a query raises it before collection.query is reached;
\* generate with such a query raises it in its retrieve stage, with no
\* provider tried and the provider counters as they were.
C19_BlankRejected ==
    /\ (last.op = "generate_embedding" /\ last.text \in {"", "  "})
            => IsInputError(last.result)
    /\ (last.op = "generate_embeddings" /\ Len(last.texts) = 0)
            => IsInputError(last.result)
    /\ (last.op = "retrieve" /\ last.query \in {"", "  "})
            => IsInputError(last.result) /\ ~last.result.queried
    /\ (last.op = "generate" /\ last.done /\ frame.query \in {"", "  "})
            => /\ IsInputError(last.result)
               /\ ~last.result.queried
               /\ stages = <<"retrieve">>
               /\ last.tried = <<>>
               /\ stats = last.before

\* generate was called with a whitespace-only query on a built index, with
\* the API manager constructed.
C19_Witness ==
    /\ last.op = "generate" /\ last.done
    /\ frame.query = "  "
    /\ collection # <<>>
    /\ IsInputError(last.result)
    /\ api_manager.exists

(***************************************************************************)
(* C20: provider, model and usage of a generated answer                    *)
(***************************************************************************)

\* The provider that answered the last generate call: the last one tried
Answering == last.tried[Len(last.tried)]

\* What that provider's API reported on the call
Reported == CHOOSE reply \in last.reported : TRUE

GroqAttempted == api_manager.groq_client

\* The fallback was attempted in the last generate_response call
OpenaiAttempted ==
    /\ api_manager.openai_client
    /\ ~api_manager.groq_client \/ (~last.groq_ok /\ last.use_fallback)

\* 1 if b, else 0
One(b) == IF b THEN 1 ELSE 0

\* C21: a generate_response call adds exactly one to groq_calls when the
\* primary was attempted and answered, exactly one to groq_errors when it was
\* attempted and failed, likewise for the fallback, and leaves every other
\* counter as it was; so calls + errors of a provider grows by one per attempt
\* on it, an unattempted provider's counters are unchanged and no counter
\* decreases.
C21_CountersExact ==
    last.op = "generate_response" =>
        /\ stats.groq_calls = last.before.groq_calls + One(GroqAttempted /\ last.groq_ok)
        /\ stats.groq_errors = last.before.groq_errors + One(GroqAttempted /\ ~last.groq_ok)
        /\ stats.openai_calls
              = last.before.openai_calls + One(OpenaiAttempted /\ last.openai_ok)
        /\ stats.openai_errors
              = last.before.openai_errors + One(OpenaiAttempted /\ ~last.openai_ok)
        /\ last.tried = (IF GroqAttempted THEN <<"groq">> ELSE <<>>)
                            \o (IF OpenaiAttempted THEN <<"openai">> ELSE <<>>)

\* A second call in which the primary failed and the fallback answered, after
\* a first call the primary had answered.
C21_Witness ==
    /\ last.op = "generate_response"
    /\ last.before = [groq_calls |-> 1, openai_calls |-> 0, groq_errors |-> 0, openai_errors |-> 0]
    /\ last.tried = <<"groq", "openai">>
    /\ stats = [groq_calls |-> 1, openai_calls |-> 1, groq_errors |-> 1, openai_errors |-> 0]

(***************************************************************************)
(* The filter mapping of retrieve (checked under SpecRetriever)            *)
(***************************************************************************)

\* The constraints a filters argument carries, as a set of <<key, value>>.
Constraints(filters) ==
    IF filters.present THEN {<<k, filters.map[k]>> : k \in DOMAIN filters.map} ELSE {}

\* Every returned result carries every constraint of the filter.
ResultsMatch(filters) ==
    last.result.kind = "ok" =>
        \A i \in 1..Len(last.result.results) :
            \A c \in Constraints(filters) :
                /\ c[1] \in DOMAIN last.result.results[i].metadata
                /\ last.result.results[i].metadata[c[1]] = c[2]

\* The filter retrieve must pass when exactly the arguments in `given` count
\* as supplied: one equality per supplied argument, absent when there is none.
FilterFrom(given) ==
    /\ last.filters.present = (given # {})
    /\ Constraints(last.filters) =
           {<<k, IF k = "faculty" THEN last.faculty ELSE last.source_type>> : k \in given}
    /\ ResultsMatch(last.filters)

\* C22 as stated: the filter holds one equality constraint for each of
\* faculty, source_type that was supplied (is not None), none for an absent
\* one; with both every result matches both; with neither the filters are
\* passed as absent.
C22_AsStated ==
    RetrieveCall =>
        FilterFrom((IF last.faculty # None THEN {"faculty"} ELSE {})
                       \cup (IF last.source_type # None THEN {"source_type"} ELSE {}))

\* C22 amended: the same with "supplied" meaning a non-empty string; an
\* argument that is None or "" adds no constraint.
C22_FilterFromNonEmpty ==
    RetrieveCall =>
        FilterFrom((IF Truthy(last.faculty) THEN {"faculty"} ELSE {})
                       \cup (IF Truthy(last.source_type) THEN {"source_type"} ELSE {}))

C22_Witness ==
    /\ RetrieveCall
    /\ last.faculty = "FAS" /\ last.source_type = "web"
    /\ Constraints(last.filters) = {<<"faculty", "FAS">>, <<"source_type", "web">>}
    /\ Len(last.result.results) >= 1
    /\ \E i \in 1..Len(collection) : collection[i].metadata.faculty # "FAS"

(***************************************************************************)
(* Short and skipped documents (checked under SpecPrepare)                 *)
(***************************************************************************)

PrepareCall == last.op = "prepare"

\* len(content.strip()) of each raw document
TrimmedLen == [d \in RawPool \cup EdgePool |-> Len(Strip(Content(d)))]

\* The raw documents that pass the pre-filter and are shorter than the
\* chunk size, in the order of the data files
ShortDocs == SelectSeq(disk, LAMBDA d : TrimmedLen[d] >= 100 /\ Len(Content(d)) < CHUNK_SIZE)

\* The prepared units that carry no chunk numbering
WholeUnits ==
    SelectSeq(last.result,
              LAMBDA u : {"chunk_index", "total_chunks"} \cap DOMAIN u.metadata = {})

\* unit is the raw document d stored whole: its content, its metadata, and
\* the five top-level fields for the keys its metadata lacks.
StoredWhole(unit, d) ==
    /\ unit.content = d.content
    /\ DOMAIN unit.metadata =
           DOMAIN d.metadata
               \cup ({"url", "title", "faculty", "source_type", "department"} \cap DOMAIN d.top)
    /\ \A k \in DOMAIN d.metadata : unit.metadata[k] = d.metadata[k]
    /\ \A k \in DOMAIN unit.metadata \ DOMAIN d.metadata : unit.metadata[k] = d.top[k]

\* C23: each document with len(content) < chunk_size that passes the
\* pre-filter yields exactly one unit, with the whole content, the original
\* metadata without chunk_index/total_chunks, and the top-level fields
\* url/title/faculty/source_type/department for the keys the metadata lacks
\* only; no other unit is without chunk numbering.
C23_ShortStoredWhole ==
    PrepareCall =>
        /\ Len(WholeUnits) = Len(ShortDocs)
        /\ \A i \in 1..Len(ShortDocs) : StoredWhole(WholeUnits[i], ShortDocs[i])

\* A short document whose top level has a key its metadata has too, a key
\* it lacks, and a key that is never merged.
C23_Witness ==
    /\ PrepareCall
    /\ \E i \in 1..Len(ShortDocs) :
          /\ DOMAIN ShortDocs[i].metadata \cap DOMAIN ShortDocs[i].top = {"title"}
          /\ ShortDocs[i].top.title # ShortDocs[i].metadata.title
          /\ "url" \in DOMAIN WholeUnits[i].metadata
          /\ "scraped_at" \in DOMAIN ShortDocs[i].top
    /\ Len(last.result) > Len(WholeUnits)

\* The raw documents the pre-filter lets through
KeptDocs == SelectSeq(disk, LAMBDA d : TrimmedLen[d] >= 100)

RECURSIVE UnitsPerDoc(_, _)
\* The prepared output splits into one non-empty run of units per kept
\* document, in order: the units of a chunked document are numbered
\* 0..total-1, a document stored whole gives one unnumbered unit.
UnitsPerDoc(units, docs) ==
    IF docs = <<>> THEN units = <<>>
    ELSE /\ units # <<>>
         /\ LET m == Head(units).metadata
                 n == IF "total_chunks" \in DOMAIN m
                      THEN CHOOSE k \in 1..Len(units) : ToString(k) = m.total_chunks.s
                      ELSE 1
             IN  /\ n <= Len(units)
                 /\ \A j \in 1..n :
                        \E a \in 1..Len(Head(docs).content) :
                            /\ a + Len(units[j].content) - 1 <= Len(Head(docs).content)
                            /\ units[j].content # <<>>
                            /\ units[j].content =
                                   SubSeq(Head(docs).content, a, a + Len(units[j].content) - 1)
                 /\ UnitsPerDoc(SubSeq(units, n + 1, Len(units)), Tail(docs))

\* C24: a document whose trimmed content is under 100 characters (empty and
\* missing content included) contributes no unit and no increment of
\* total_chunks; every document with at least 100 trimmed characters
\* contributes at least one unit: the output is one non-empty run of units
\* per kept document, and total_chunks grows by the number of units.
C24_PreFilter ==
    PrepareCall =>
        /\ UnitsPerDoc(last.result, KeptDocs)
        /\ last.total_chunks = Len(last.result)
        /\ (KeptDocs = <<>>) => (last.result = <<>> /\ last.total_chunks = 0)

\* A prepare over a skipped document (99 trimmed characters) and a kept one
\* (100 trimmed characters).
C24_Witness ==
    /\ PrepareCall
    /\ \E i, j \in 1..Len(disk) : TrimmedLen[disk[i]] = 99 /\ TrimmedLen[disk[j]] = 100
    /\ Len(last.result) = 1 /\ last.total_chunks = 1

(***************************************************************************)
(* Stored items (checked under SpecIds)                                    *)
(***************************************************************************)

\* The ids uuid4 has produced so far
GeneratedIds == {"uuid-" \o ToString(n) : n \in 1..next_uuid}

\* item is what the store holds for document d: every value of d's metadata
\* as a string, under d's id when it brings a non-empty one, under a
\* generated id otherwise.
StoredFor(item, d) ==
    /\ item.document = d.content
    /\ DOMAIN item.metadata = DOMAIN d.metadata
    /\ \A k \in DOMAIN d.metadata :
          /\ item.metadata[k] \in STRING
          /\ item.metadata[k] = (IF d.metadata[k].py = "int"
                                 THEN ToString(d.metadata[k].n) ELSE d.metadata[k].s)
    /\ IF "id" \in DOMAIN d /\ d.id # ""
       THEN item.id = d.id
       ELSE item.id \in GeneratedIds

\* C25: at every moment every stored item holds the metadata of its
\* document with every value a string (chunk_index and total_chunks
\* included), no two stored items have the same id, and an item whose
\* document supplied no id has a generated one.
C25_StringsAndUniqueIds ==
    /\ \A i \in 1..Len(collection) :
          \E d \in DocPool \cup IdDocPool : StoredFor(collection[i], d)
    /\ \A i, j \in 1..Len(collection) : collection[i].id = collection[j].id => i = j

\* The index holds a document that came with an id and numeric metadata and
\* one that came with an empty id; the document with the id was offered a
\* second time by a call that did not raise.
C25_Witness ==
    /\ \E i \in 1..Len(collection) :
          collection[i].id = "doc-1" /\ collection[i].metadata.page_number = "7"
    /\ \E i \in 1..Len(collection) :
          /\ collection[i].document = "library"
          /\ collection[i].metadata.chunk_index = "1"
          /\ collection[i].id \in GeneratedIds
    /\ adder.pc = "returned" /\ ~adder.raised
    /\ \E j \in 1..Len(adder.documents) : adder.documents[j].content = "timetable"
    /\ \E c \in 1..Len(adder.before) : adder.before[c].id = "doc-1"

(***************************************************************************)
(* C26: termination of chunk_document (checked under SpecChunker)          *)
(***************************************************************************)

\* The arguments of the call are a pair with 0 <= overlap < chunk_size
ValidPair ==
    /\ chunker.pc # "idle"
    /\ chunker.arg_chunk_size >= 1
    /\ chunker.arg_overlap >= 0 /\ chunker.arg_overlap < chunker.arg_chunk_size

\* C26 as stated: chunk_document terminates for every content and every
\* supplied pair with 0 <= overlap < chunk_size.  The loop `while start <
\* len(content)` adds the same step to start in every iteration, so it ends
\* exactly when each iteration leaves start beyond the start of the window it
\* has just cut; a call in which start does not advance never returns.
C26_TerminatesAsStated ==
    (ValidPair /\ chunker.windows # <<>>)
        => chunker.start > chunker.windows[Len(chunker.windows)][1]

(***************************************************************************)
(* C27: the index after a rebuild (checked under SpecBuilder)              *)
(***************************************************************************)

\* The collection holds the prepared chunks of the data files, in order,
\* and nothing else.
HoldsExactlyPrepared ==
    LET prepared == PrepareDocuments(disk)
    IN  /\ Len(collection) = Len(prepared)
        /\ \A i \in 1..Len(prepared) : collection[i].document = prepared[i].content

\* C27 as stated: after build_knowledge_base(rebuild=True) has completed
\* without raising, the index holds exactly the chunks prepared in that run,
\* whatever happened in the delete step.
C27_RebuildAsStated ==
    (last.op = "build" /\ last.rebuild /\ ~last.raised) => HoldsExactlyPrepared

(***************************************************************************)
(* C28: the query path (checked under SpecApp)                             *)
(***************************************************************************)

\* A step of a generate call
GenerateStep == pc # "idle" \/ pc' # "idle"

\* C28: no step of the chat application (embedding a query, retrieve, the
\* stages of generate) changes the stored items or their count; a step of a
\* generate call changes nothing of the environment, the manager's clients
\* and the vector store instances either, and the LLM counters change in
\* the LLM stage only.
C28_QueryPathReadOnly ==
    [][ /\ collection' = collection
        /\ Len(collection') = Len(collection)
        /\ next_uuid' = next_uuid
        /\ GenerateStep => env' = env /\ api_manager' = api_manager /\ vs' = vs /\ disk' = disk
        /\ stats' # stats => pc = "llm" /\ pc' = "idle" ]_vars

\* A generate call answered from the built index and counted by the manager,
\* the index as it was built.
C28_Witness ==
    /\ last.op = "generate" /\ last.done
    /\ last.result.kind = "ok"
    /\ last.result.sources # <<>>
    /\ stats # last.before
    /\ collection = BuiltIndex /\ collection # <<>>

(***************************************************************************)
(* C29: the error of a lone primary (checked under SpecLLM)                *)
(***************************************************************************)

\* C29 as stated: when only the primary is configured and its attempt fails,
\* generate_response raises the primary's own failure, whether use_fallback
\* is true or false.
C29_PrimaryErrorAsStated ==
    (/\ ResponseCall
     /\ api_manager.groq_client /\ ~api_manager.openai_client
     /\ ~last.groq_ok) =>
        /\ last.result.kind = "error"
        /\ last.result = CallGroq([ok |-> FALSE])
        /\ last.result.origin = "groq"

(***************************************************************************)
(* C30: what a chunk adds to its predecessor (checked under SpecChunker)   *)
(***************************************************************************)

\* The windows of the call whose slice was emitted as a chunk (it holds a
\* non-whitespace character)
EmittedWindows ==
    SelectSeq(chunker.windows,
              LAMBDA w : Strip(PySlice(chunker.content, w[1], w[2])) # <<>>)

\* The end of a window, cut at the end of the content
ClippedEnd(w) ==
    LET n == Len(chunker.content) IN IF w[2] > n THEN n ELSE w[2]

\* C30 as stated: in a call on content of at least chunk_size characters
\* with overlap < chunk_size, every chunk after the first covers a position
\* of the content that the chunk before it does not cover (its window ends
\* further right in the content).
C30_NewPositionsAsStated ==
    (/\ chunker.pc = "done"
     /\ chunker.overlap < chunker.chunk_size
     /\ Len(chunker.content) >= chunker.chunk_size) =>
        LET ew == EmittedWindows
        IN  \A i \in 2..Len(ew) : ClippedEnd(ew[i]) > ClippedEnd(ew[i - 1])

====
